---- MODULE Spec2Model ----
(***************************************************************************)
(* USB Cellular Airbridge.                                                 *)
(*                                                                         *)
(* Spec        main.py: the boot-time drain, the monitor loop and the      *)
(*             harvest cycle, with the gadget module, the local mount, the *)
(*             host and the block-device write counter as environment.     *)
(*             upload_ftp and setup_network are calls that return success  *)
(*             or failure.                                                 *)
(* SpecUpload  modem_handler.py: upload_ftp step by step, with the         *)
(*             persisted progress record and the modem's answers.          *)
(* SpecStream  upload_ftp's chunk loop alone, on files longer than the     *)
(*             progress-saving period.                                     *)
(* SpecBoot    main.py: the boot phase with its timeout.                   *)
(* SpecModem   modem_handler.py: setup_network and close_bearer, command by *)
(*             command, with send_at's and wait_for_response's polling.    *)
(* SpecWait    send_at and wait_for_response on the text the modem sends.  *)
(* SpecMode    main.py: the loading and unloading of the gadget module.    *)
(* SpecCycle   the harvest cycle of main.py beside the duty cycle of       *)
(*             pi_usb_manager.py.                                          *)
(* SpecErr     main.py: the monitor loop with exceptions and the interrupt. *)
(* SpecResume  the uploads that follow a failed upload of a file, up to    *)
(*             the next upload of that file.                               *)
(* SpecClose   the end of the PUT session, on the text the modem sends.    *)
(* SpecCrash   upload_ftp's chunk loop, the death of the process in it and *)
(*             upload_ftp for the same file in a later run.                *)
(*                                                                         *)
(* Time is in seconds.  main.py uses time only in differences, and the      *)
(* write counter only in comparisons and differences, so Spec moves the    *)
(* origin of both back to 0 when a harvest cycle or the monitor loop       *)
(* begins.  File reads, os.remove and the write of the progress file are   *)
(* taken to succeed.                                                       *)
(***************************************************************************)
EXTENDS Integers, Sequences, FiniteSets, TLC

\* ------------------------------------------------------------------ bounds
NumFiles == 3          \* files 1..NumFiles may exist on the backing volume
MaxTime == 7           \* clock bound of one monitor session
MaxBootTime == 14      \* clock bound of the boot phase
MaxSectors == 2        \* bound of the write counter in one monitor session
MaxClock == 7200       \* clock bound of a sequence of uploads
MaxUnacked == 1        \* chunks taken by the modem without a timely OK, in
                       \* one upload

\* -------------------------------------------------------- program constants
NoTime == -1           \* last_write_time = None
ReadError == -1        \* get_disk_write_sectors() on error
BootRetrySleep == 10   \* time.sleep(10) between boot-phase retries
max_retries == 3       \* upload_ftp(..., max_retries=3, ...)
chunk_size == 512000   \* SIM7000GHandler(..., chunk_size=512000)
DefaultChunk == 1000   \* max_chunk = 1000 when the ready line does not parse
ResumeMaxAge == 3600   \* load_progress(): time.time() - timestamp < 3600
SaveEvery == 500 * 1024  \* bytes_sent % (500 * 1024) < max_chunk
NoNumber == -1         \* a ready line whose last field is not an integer

\* configuration values (config.yaml) the runs are drawn from
QuietWindows == {3}         \* cfg['quiet_window_seconds']
PollIntervals == {1, 2}     \* cfg['poll_interval']
BootTimeouts == {3, 12}     \* cfg['boot_upload_timeout']

\* <maxlength> of the modem's ready line "+FTPPUT: 1,1,<maxlength>"
MaxLenReports == {0, 1360, 1024000, NoNumber}
\* seconds that pass between two steps of a sequence of uploads
TickSteps == {3599, 3600}

Files == 1..NumFiles
\* File 1 is an archive queued in the outbox directory (.zip/.gz in
\* cfg['outbox_dir'], a hidden directory of the volume); the other files are
\* host files the harvest walk finds.
IsQueued(f) == f = 1
\* os.path.getsize(filepath): 0, 1500, 3000, ... bytes
FileSize(f) == 1500 * (f - 1)

VARIABLES
  \* configuration
  quiet_window, poll_interval, boot_upload_timeout,
  \* environment
  now,            \* time.time()
  gadget,         \* g_mass_storage is loaded (device exposed to the host)
  mounted,        \* the backing device is mounted at cfg['mount_point']
  hostAttached,   \* a host is plugged into the USB port
  sectors,        \* cumulative write sectors of the backing device
  volume,         \* files present on the backing volume
  \* main()
  pc,
  boot_start, start_time,
  baseline_sectors, last_seen_sectors, last_write_time, host_was_connected,
  nextPoll,       \* when time.sleep(cfg['poll_interval']) ends
  \* harvest_and_upload() / startup_upload_phase()
  files_to_upload, idx, failed_count, caller,
  \* history of the current cycle (not read by the program)
  cycleTried,     \* files upload_ftp was called for
  cycleOk,        \* files upload_ftp returned success for
  cycleRemoved,   \* files that left the volume
  cycleNet,       \* "none", "ok", "no_modem" or "no_ip": setup_network()'s
                  \* result
  cycleOps,       \* the steps taken, in order: <<step, file>>, file 0: none
  \* history of the host's session (not read by the program)
  lastHostWrite,  \* time of the host's last write since it attached to an
                  \* idle monitor, NoTime when it has not written
  \* upload_ftp()
  progress,       \* the content of PROGRESS_FILE; present = the file exists
  upc,
  filepath,       \* the file of the running or of the last upload, 0: none
  filesize, resume_from, use_append, max_chunk, bytes_sent,
  fpos,           \* position of the open file f
  chunk_off, chunk_len, attempt,
  ret,            \* "none", or what upload_ftp returned: "ok", "failed"
  msg,            \* the message upload_ftp returned with it, and the byte
                  \* offset the message names
  \* history of the upload (not read by the program)
  acked,          \* <<offset, length>> of the chunks the modem acknowledged
  saved,          \* this upload has written the progress record
  retried,        \* most failed attempts before an acknowledged attempt
  announced,      \* <<offset, length>> of each "AT+FTPPUT=2,<length>" sent
                  \* for the current chunk
  wire,           \* what crossed the serial line since the last
                  \* "AT+FTPPUT=..." was written, that command included:
                  \* <<event, offset, length>>; a session that opened
                  \* leaves no event
  delivered       \* <<offset, length>> of the chunks the modem took and
                  \* sent on to the remote file, in order, since the remote
                  \* file was last created (STOR) or upload_ftp last returned

mainVars == <<quiet_window, poll_interval, boot_upload_timeout, now, gadget,
              mounted, hostAttached, sectors, volume, pc, boot_start,
              start_time, baseline_sectors, last_seen_sectors,
              last_write_time, host_was_connected, nextPoll, files_to_upload,
              idx, failed_count, caller, cycleTried, cycleOk, cycleRemoved,
              cycleNet, cycleOps, lastHostWrite>>

upVars == <<progress, upc, filepath, filesize, resume_from, use_append,
            max_chunk, bytes_sent, fpos, chunk_off, chunk_len, attempt, ret,
            msg, acked, saved, retried, announced, wire, delivered>>

\* modem_handler.py: a call of setup_network(), close_bearer() or
\* wait_for_response(), and the wait loop inside it.  Time is counted in units
\* of 50 ms.
VARIABLES
  mpc,            \* "idle", the statement of setup_network() that is waiting,
                  \* "close", "wait", a "..._done", or "uploads"
  call,           \* the wait in progress: kind, expected, timeout
  wpc,            \* "none", "loop" (in the while loop), "ret" (returned)
  elapsed,        \* time.time() - start_time of the wait
  response,       \* the pieces of text read so far in the wait
  creg_i,         \* `i` of `for i in range(10)`
  net_ret,        \* "none", or what setup_network() returned
  sent            \* history: the commands written to the modem in the
                  \* call, a command repeated in a row listed once

mdVars == <<mpc, call, wpc, elapsed, response, creg_i, net_ret, sent>>

\* the calls made so far on the operations that change the mode of the device
\* (main.py and pi_usb_manager.py), each with what it reported and the mode it
\* left
VARIABLES modeOps

modeVars == <<modeOps>>

\* send_at() and wait_for_response() character by character
VARIABLES
  line,           \* the characters the modem has still to deliver in the wait
  got,            \* history: the characters read from the port in the wait
  wok             \* "none", or the truth value the wait returned

rxVars == <<line, got, wok>>

vars == <<mainVars, upVars, mdVars, modeVars, rxVars>>

\* ------------------------------------------------------------------ helpers
RECURSIVE Enumerate(_)
\* os.walk / os.listdir order of a set of files, as a sequence
Enumerate(S) ==
  IF S = {} THEN <<>>
  ELSE LET f == CHOOSE x \in S : \A y \in S : x <= y
       IN <<f>> \o Enumerate(S \ {f})

\* get_udc_state(): "configured" when a host has enumerated the loaded gadget;
\* any other value, and "unknown" on a read error, counts as not connected.
UdcStates == IF gadget /\ hostAttached THEN {"configured", "unknown"}
             ELSE {"not attached", "unknown"}

\* get_disk_write_sectors(): the counter, or -1 on error
SectorReads == {sectors, ReadError}


\* subprocess.run(["modprobe", "-r", "g_mass_storage"]): the module is gone,
\* or the removal failed and nothing changed; the result is not looked at.
UnloadOutcomes(g) == {FALSE, g}

\* subprocess.run(["umount", mount_point]): unmounted, or the call failed
UnmountOutcomes(m) == {FALSE, m}

\* mount_usb_disk(): umount of a stale mount, then mount; True iff mount
\* returned 0
MountOutcomes(m) ==
  {[ok |-> TRUE, mounted |-> TRUE]}
    \cup {[ok |-> FALSE, mounted |-> m1] : m1 \in UnmountOutcomes(m)}

\* load_usb_gadget(): True iff modprobe returned 0
LoadOutcomes(g) ==
  {[ok |-> TRUE, gadget |-> TRUE], [ok |-> FALSE, gadget |-> g]}

\* `expected in response`: a response is the set of the pieces of text read
Contains(text, piece) == piece \in text

\* what send_at('AT+SAPBR=2,1', timeout=5) can hand back as resp: nothing
\* (timeout), an error, the bearer status with or without an address
BearerReplies ==
  {{}, {"ERROR"}, {"0.0.0.0", "OK"}, {"10.0.0.1", "OK"}}

\* setup_network() 57-59 and 82-87, from the result of "AT" and the response
\* to the bearer query
setup_network(at_ok, resp) ==
  IF ~at_ok THEN "no_modem"
  ELSE IF Contains(resp, "0.0.0.0") THEN "no_ip"
  ELSE "ok"

RemoveAlways(ok, f, vol) == vol \ {f}

RemoveUnlessOk(ok, f, vol) == IF ok THEN vol ELSE vol \ {f}

\* `if ok: os.remove(filepath)` (main.py 188-190 and 349-351)
RemoveIfOk(ok, f, vol) == IF ok THEN vol \ {f} ELSE vol

QuietElapsedLate(t, lwt, qw) == lwt # NoTime /\ t - lwt > qw

\* main() 430-436: `last_write_time is not None` and
\* `time_since_write >= quiet_window`
QuietElapsed(t, lwt, qw) == lwt # NoTime /\ t - lwt >= qw

\* --------------------------------------------------------------------- Init
NoProgress == [present |-> FALSE, filepath |-> 0, bytes_sent |-> 0,
               timestamp |-> 0]

NoMsg == [kind |-> "none", at |-> 0]

\* the locals of upload_ftp() and the history of the upload, outside a call
NoCall == [kind |-> "none", expected |-> "", timeout |-> 0]

\* no wait in progress, the handler's caller at position p
ModemAt(p) ==
  /\ mpc = p /\ call = NoCall /\ wpc = "none" /\ elapsed = 0
  /\ response = {} /\ creg_i = 0 /\ net_ret = "none" /\ sent = <<>>
  /\ modeOps = <<>>
  /\ line = <<>> /\ got = <<>> /\ wok = "none"

NoUpload ==
  /\ filesize = 0 /\ resume_from = 0 /\ use_append = FALSE /\ max_chunk = 0
  /\ bytes_sent = 0 /\ fpos = 0 /\ chunk_off = 0 /\ chunk_len = 0
  /\ attempt = 0 /\ ret = "none" /\ acked = <<>> /\ retried = 0
  /\ msg = NoMsg /\ announced = <<>> /\ wire = <<>> /\ delivered = <<>>

\* the service is started, at statement p: the device in either mode or in
\* neither, the volume with any files
ServiceStart(p) ==
  /\ ModemAt("uploads")
  /\ progress = NoProgress /\ upc = "idle" /\ filepath = 0 /\ saved = FALSE
  /\ NoUpload
  /\ quiet_window = 0 /\ poll_interval = 0 /\ boot_upload_timeout = 0
  /\ now = 0
  /\ gadget \in BOOLEAN /\ mounted \in BOOLEAN /\ ~(gadget /\ mounted)
  /\ hostAttached = FALSE
  /\ sectors = 0
  /\ volume \in SUBSET Files
  /\ pc = p
  /\ boot_start = 0 /\ start_time = 0
  /\ baseline_sectors = 0 /\ last_seen_sectors = 0
  /\ last_write_time = NoTime /\ host_was_connected = FALSE
  /\ nextPoll = 0
  /\ files_to_upload = <<>> /\ idx = 1 /\ failed_count = 0 /\ caller = "boot"
  /\ cycleTried = {} /\ cycleOk = {} /\ cycleRemoved = {} /\ cycleNet = "none"
  /\ cycleOps = <<>>
  /\ lastHostWrite = NoTime

Init == ServiceStart("start")

cfgVars == <<quiet_window, poll_interval, boot_upload_timeout>>
monVars == <<baseline_sectors, last_seen_sectors, last_write_time,
             host_was_connected, nextPoll>>
cycleVars == <<files_to_upload, idx, failed_count, caller>>
cycleSets == <<cycleTried, cycleOk, cycleRemoved>>
cycleHist == <<cycleSets, cycleNet, cycleOps>>
sessHist == <<lastHostWrite>>

\* the cycle's history with the steps q added
Did(q) == cycleOps' = cycleOps \o [i \in 1..Len(q) |-> <<q[i], 0>>]

NewCycle ==
  /\ cycleTried' = {} /\ cycleOk' = {} /\ cycleRemoved' = {}
  /\ cycleNet' = "none" /\ cycleOps' = <<>>

\* the cycle's locals and history end with the cycle
EndCycle ==
  /\ files_to_upload' = <<>> /\ idx' = 1 /\ failed_count' = 0
  /\ NewCycle

\* ---------------------------------------------------------------- boot phase
\* main() 373-382: unload the gadget, note the start of the boot phase.
\* cfg is constant; each value is drawn where main() first reads it.
BootStart ==
  /\ UNCHANGED <<upVars, mdVars, modeVars, rxVars>>
  /\ pc = "start"
  /\ gadget' \in UnloadOutcomes(gadget)
  /\ boot_upload_timeout' \in BootTimeouts
  /\ boot_start' = now
  /\ pc' = "boot_loop"
  /\ UNCHANGED <<quiet_window, poll_interval, now, mounted, hostAttached,
                 sectors, volume, start_time, monVars, cycleVars, cycleHist,
                 sessHist>>

BootWhileTrue(t, start, timeout) == TRUE

\* main() 384: the condition of `while time.time() - boot_start < boot_timeout`
BootWithin(t, start, timeout) == t - start < timeout

\* main() 384-386: while time.time() - boot_start < boot_timeout
BootLoop ==
  /\ UNCHANGED <<upVars, mdVars, modeVars, rxVars>>
  /\ pc = "boot_loop"
  /\ IF BootWithin(now, boot_start, boot_upload_timeout)
     THEN pc' = "s_mount" /\ caller' = "boot" /\ NewCycle
     ELSE pc' = "load" /\ UNCHANGED <<caller, cycleHist>>
  /\ UNCHANGED <<cfgVars, now, gadget, mounted, hostAttached, sectors, volume,
                 boot_start, start_time, monVars, files_to_upload, idx,
                 failed_count, sessHist>>

\* startup_upload_phase() 281-307: mount, list the outbox
StartupMount ==
  /\ UNCHANGED <<upVars, mdVars, modeVars, rxVars>>
  /\ pc = "s_mount"
  /\ \E r \in MountOutcomes(mounted) :
       LET pending == Enumerate({f \in volume : IsQueued(f)})
       IN IF ~r.ok
          THEN \* 286-288
               /\ mounted' = r.mounted /\ pc' = "load"
               /\ Did(<<"mount">>)
               /\ UNCHANGED <<sectors, files_to_upload, idx, start_time>>
          ELSE /\ UNCHANGED sectors
               /\ IF pending = <<>>
                  THEN \* 296-299
                       /\ mounted' \in UnmountOutcomes(r.mounted)
                       /\ pc' = "load"
                       /\ Did(<<"mount", "unmount">>)
                       /\ UNCHANGED <<files_to_upload, idx, start_time>>
                  ELSE /\ mounted' = r.mounted
                       /\ files_to_upload' = pending /\ idx' = 1
                       /\ start_time' = now
                       /\ pc' = "s_network"
                       /\ Did(<<"mount">>)
  /\ UNCHANGED <<cfgVars, now, gadget, hostAttached, volume, boot_start,
                 monVars, failed_count, caller, cycleSets, cycleNet,
                 sessHist>>

\* startup_upload_phase() 310-329: m.setup_network(); on failure return False
\* with the disk still mounted while the timeout has not elapsed
StartupNetwork ==
  /\ UNCHANGED <<upVars, mdVars, modeVars, rxVars>>
  /\ pc = "s_network"
  /\ \E at_ok \in BOOLEAN, resp \in BearerReplies :
       /\ cycleNet' = setup_network(at_ok, resp)
       /\ IF cycleNet' = "ok"
          THEN /\ pc' = "s_upload"
               /\ Did(<<"network">>)
               /\ UNCHANGED mounted
          ELSE
               IF now - start_time < boot_upload_timeout
               THEN /\ pc' = "boot_sleep" /\ UNCHANGED mounted
                    /\ Did(<<"network">>)
               ELSE /\ mounted' \in UnmountOutcomes(mounted)
                    /\ pc' = "load"
                    /\ Did(<<"network", "unmount">>)
  /\ UNCHANGED <<cfgVars, now, gadget, hostAttached, sectors, volume,
                 boot_start, start_time, monVars, cycleVars, cycleTried,
                 cycleOk, cycleRemoved, sessHist>>

\* startup_upload_phase() 331-354: one iteration of `for filepath in pending`
StartupUpload ==
  /\ UNCHANGED <<upVars, mdVars, modeVars, rxVars>>
  /\ pc = "s_upload"
  /\ IF idx > Len(files_to_upload) \/ now - start_time > boot_upload_timeout
     THEN /\ pc' = "s_close"
          /\ UNCHANGED <<idx, volume, sectors, cycleSets, cycleOps>>
     ELSE LET f == files_to_upload[idx]
          IN /\ idx' = idx + 1 /\ pc' = "s_upload"
             /\ IF f \notin volume
                THEN UNCHANGED <<volume, sectors, cycleSets, cycleOps>>
                ELSE \E ok \in BOOLEAN :
                       /\ volume' = RemoveIfOk(ok, f, volume)
                       /\ UNCHANGED sectors
                       /\ cycleOps' = Append(cycleOps, <<"upload", f>>)
                       /\ cycleTried' = cycleTried \cup {f}
                       /\ cycleOk' = IF ok THEN cycleOk \cup {f} ELSE cycleOk
                       /\ cycleRemoved' = cycleRemoved \cup (volume \ volume')
  /\ UNCHANGED <<cfgVars, now, gadget, mounted, hostAttached, boot_start,
                 start_time, monVars, files_to_upload, failed_count, caller,
                 cycleNet, sessHist>>

\* startup_upload_phase() 356-360: close the bearer, unmount, return True
StartupClose ==
  /\ UNCHANGED <<upVars, mdVars, modeVars, rxVars>>
  /\ pc = "s_close"
  /\ mounted' \in UnmountOutcomes(mounted)
  /\ pc' = "load"
  /\ Did(<<"close_bearer", "unmount">>)
  /\ UNCHANGED <<cfgVars, now, gadget, hostAttached, sectors, volume,
                 boot_start, start_time, monVars, cycleVars, cycleSets,
                 cycleNet, sessHist>>

\* main() 387: time.sleep(10) after startup_upload_phase() returned False
BootSleep ==
  /\ UNCHANGED <<upVars, mdVars, modeVars, rxVars>>
  /\ pc = "boot_sleep"
  /\ now' = now + BootRetrySleep
  /\ pc' = "boot_loop"
  /\ UNCHANGED <<cfgVars, gadget, mounted, hostAttached, sectors, volume,
                 boot_start, start_time, monVars, cycleVars, cycleHist,
                 sessHist>>

\* time passing while the boot phase works (mount, modem commands, uploads)
BootTick ==
  /\ UNCHANGED <<upVars, mdVars, modeVars, rxVars>>
  /\ pc \in {"s_mount", "s_network", "s_upload", "s_close"}
  /\ now < MaxBootTime
  /\ now' = now + 1
  /\ UNCHANGED <<cfgVars, gadget, mounted, hostAttached, sectors, volume, pc,
                 boot_start, start_time, monVars, cycleVars, cycleHist,
                 sessHist>>

\* main() 394-405: load the gadget (return 1 on failure), take the baseline.
\* No time is held any more: the clock and the counter restart at 0.
LoadGadget ==
  /\ UNCHANGED <<upVars, mdVars, modeVars, rxVars>>
  /\ pc = "load"
  /\ \E r \in LoadOutcomes(gadget) :
       /\ gadget' = r.gadget
       /\ IF r.ok
          THEN /\ pc' = "monitor"
               /\ quiet_window' \in QuietWindows
               /\ poll_interval' \in PollIntervals
               /\ \E b \in {0, ReadError} :
                    baseline_sectors' = b /\ last_seen_sectors' = b
          ELSE /\ pc' = "exit"
               /\ UNCHANGED <<quiet_window, poll_interval, baseline_sectors,
                              last_seen_sectors>>
  /\ now' = 0 /\ sectors' = 0 /\ nextPoll' = 0
  /\ boot_start' = 0 /\ start_time' = 0 /\ boot_upload_timeout' = 0
  /\ last_write_time' = NoTime /\ host_was_connected' = FALSE
  /\ lastHostWrite' = NoTime
  /\ EndCycle
  /\ UNCHANGED <<mounted, hostAttached, volume, caller>>


\* ------------------------------------------------------------- monitor loop
\* the call of harvest_and_upload() from the monitor loop (438 or 454)
CallHarvest(cause) ==
  /\ pc' = "h_enter" /\ caller' = cause
  /\ NewCycle

\* main() 408-436 and 446-459: one iteration of `while True` up to the call
\* of harvest_and_upload(), or to the end of time.sleep(poll_interval) when
\* no harvest is started
PollDecide ==
  /\ UNCHANGED <<upVars, mdVars, modeVars, rxVars>>
  /\ pc = "monitor" /\ now = nextPoll
  /\ \E udc_state \in UdcStates, current_sectors \in SectorReads :
       IF udc_state = "configured"
       THEN LET fresh == ~host_was_connected
                base1 == IF fresh THEN current_sectors ELSE baseline_sectors
                seen1 == IF fresh THEN current_sectors ELSE last_seen_sectors
                wrote == current_sectors > seen1
                seen2 == IF wrote THEN current_sectors ELSE seen1
                lwt2 == IF wrote THEN now ELSE last_write_time
            IN /\ host_was_connected' = TRUE
               /\ baseline_sectors' = base1
               /\ last_seen_sectors' = seen2
               /\ last_write_time' = lwt2
               /\ IF QuietElapsed(now, lwt2, quiet_window)
                  THEN CallHarvest("quiet") /\ UNCHANGED nextPoll
                  ELSE /\ pc' = "monitor" /\ nextPoll' = now + poll_interval
                       /\ UNCHANGED <<caller, cycleHist>>
       ELSE IF host_was_connected /\ last_write_time # NoTime
            THEN /\ CallHarvest("disconnect")
                 /\ UNCHANGED monVars
            ELSE /\ last_write_time' =
                      (IF host_was_connected THEN NoTime ELSE last_write_time)
                 /\ host_was_connected' = FALSE
                 /\ pc' = "monitor" /\ nextPoll' = now + poll_interval
                 /\ UNCHANGED <<baseline_sectors, last_seen_sectors, caller,
                                cycleHist>>
  /\ UNCHANGED <<cfgVars, now, gadget, mounted, hostAttached, sectors, volume,
                 boot_start, start_time, files_to_upload, idx, failed_count,
                 lastHostWrite>>

\* `last_write_time = None` after harvest_and_upload() returned (443, 457)
KeepPending(t) == t
ResetPending(t) == NoTime

\* main() 440-444 / 455-459: the rest of the iteration after
\* harvest_and_upload() returned, and time.sleep(poll_interval).  After
\* get_disk_write_sectors() at 441 the origin of the counter moves to its
\* present value.
HarvestReturn ==
  /\ UNCHANGED <<upVars, mdVars, modeVars, rxVars>>
  /\ pc = "h_ret"
  /\ IF caller = "quiet"
     THEN /\ \E b \in {0, ReadError} :
               baseline_sectors' = b /\ last_seen_sectors' = b
          /\ sectors' = 0
     ELSE UNCHANGED <<baseline_sectors, last_seen_sectors, sectors>>
  /\ last_write_time' = ResetPending(last_write_time)
  /\ host_was_connected' = FALSE
  /\ nextPoll' = now + poll_interval
  /\ pc' = "monitor"
  /\ EndCycle
  /\ UNCHANGED <<cfgVars, now, gadget, mounted, hostAttached, volume,
                 boot_start, start_time, caller, lastHostWrite>>

\* time passing during time.sleep(poll_interval)
MonitorTick ==
  /\ UNCHANGED <<upVars, mdVars, modeVars, rxVars>>
  /\ pc = "monitor" /\ now < nextPoll /\ now < MaxTime
  /\ now' = now + 1
  /\ UNCHANGED <<cfgVars, gadget, mounted, hostAttached, sectors, volume, pc,
                 boot_start, start_time, monVars, cycleVars, cycleHist,
                 sessHist>>

\* ------------------------------------------------------------ harvest cycle
\* unmount_usb_disk(); load_usb_gadget() at the end of a cycle
ExposeAgain ==
  /\ mounted' \in UnmountOutcomes(mounted)
  /\ \E r \in LoadOutcomes(gadget) : gadget' = r.gadget

\* harvest_and_upload() 116-126: the cycle begins.  It reads none of the
\* monitor's locals, and these are overwritten before they are read again
\* (440-444, 456-457, 418-419): the clock and the counter restart at 0, with
\* the pending write at the origin.
HarvestEnter ==
  /\ UNCHANGED <<upVars, mdVars, modeVars, rxVars>>
  /\ pc = "h_enter"
  /\ pc' = "h_unload"
  /\ now' = 0 /\ nextPoll' = 0 /\ sectors' = 0
  /\ baseline_sectors' = 0 /\ last_seen_sectors' = 0
  /\ last_write_time' = 0
  /\ lastHostWrite' = NoTime
  /\ UNCHANGED <<cfgVars, gadget, mounted, hostAttached, volume, boot_start,
                 start_time, host_was_connected, cycleVars, cycleHist>>

\* harvest_and_upload() 128-131: modprobe -r, result ignored
HarvestUnload ==
  /\ UNCHANGED <<upVars, mdVars, modeVars, rxVars>>
  /\ pc = "h_unload"
  /\ gadget' \in UnloadOutcomes(gadget)
  /\ pc' = "h_mount"
  /\ Did(<<"unload">>)
  /\ UNCHANGED <<cfgVars, now, mounted, hostAttached, sectors, volume,
                 boot_start, start_time, monVars, cycleVars, cycleSets,
                 cycleNet, sessHist>>

\* The mount of the volume (133) and os.remove() with os.sync() (187-188)
\* write to the device: the write counter goes up.  One count is left for
\* the host.
HarvestWrote(s) == IF s + 1 < MaxSectors THEN s + 1 ELSE s

\* harvest_and_upload() 133-137: mount; on failure load the gadget, return
HarvestMount ==
  /\ UNCHANGED <<upVars, mdVars, modeVars, rxVars>>
  /\ pc = "h_mount"
  /\ \E r \in MountOutcomes(mounted) :
       /\ mounted' = r.mounted
       /\ IF r.ok
          THEN /\ pc' = "h_scan" /\ UNCHANGED gadget
               /\ sectors' = HarvestWrote(sectors)
               /\ Did(<<"mount">>)
          ELSE /\ pc' = "h_ret" /\ UNCHANGED sectors
               /\ Did(<<"mount", "load">>)
               /\ \E l \in LoadOutcomes(gadget) : gadget' = l.gadget
  /\ UNCHANGED <<cfgVars, now, hostAttached, volume, boot_start, start_time,
                 monVars, cycleVars, cycleSets, cycleNet, sessHist>>

SkipNetwork == "h_upload"

\* harvest_and_upload() 158-162: with files to upload, get_modem() and
\* setup_network() come next
AfterScan == "h_network"

\* harvest_and_upload() 139-156: walk the volume; nothing found: expose again
HarvestScan ==
  /\ UNCHANGED <<upVars, mdVars, modeVars, rxVars>>
  /\ pc = "h_scan"
  /\ LET found == Enumerate({f \in volume : ~IsQueued(f)})
     IN IF found = <<>>
        THEN /\ ExposeAgain /\ pc' = "h_ret"
             /\ Did(<<"scan", "unmount", "load">>)
             /\ UNCHANGED <<files_to_upload, idx, failed_count>>
        ELSE /\ files_to_upload' = found /\ idx' = 1 /\ failed_count' = 0
             /\ pc' = AfterScan
             /\ Did(<<"scan">>)
             /\ UNCHANGED <<gadget, mounted>>
  /\ UNCHANGED <<cfgVars, now, hostAttached, sectors, volume, boot_start,
                 start_time, monVars, caller, cycleSets, cycleNet,
                 sessHist>>

\* harvest_and_upload() 158-169: m.setup_network(), once per cycle
HarvestNetwork ==
  /\ UNCHANGED <<upVars, mdVars, modeVars, rxVars>>
  /\ pc = "h_network"
  /\ \E at_ok \in BOOLEAN, resp \in BearerReplies :
       /\ cycleNet' = setup_network(at_ok, resp)
       /\ IF cycleNet' = "ok"
          THEN /\ pc' = "h_upload"
               /\ Did(<<"network">>)
               /\ UNCHANGED <<gadget, mounted>>
          ELSE /\ pc' = "h_ret"
               /\ ExposeAgain
               /\ Did(<<"network", "unmount", "load">>)
  /\ UNCHANGED <<cfgVars, now, hostAttached, sectors, volume, boot_start,
                 start_time, monVars, cycleVars, cycleTried, cycleOk,
                 cycleRemoved, sessHist>>

StopAtFailure(ok, i, n) == IF ok THEN i + 1 ELSE n + 1

\* `for filepath in files_to_upload` (main.py 175): after the body, whatever
\* upload_ftp returned, the next of the n entries
NextEntry(ok, i, n) == i + 1

\* harvest_and_upload() 175-196: one iteration of `for filepath in
\* files_to_upload`: m.upload_ftp(), os.remove() on success
HarvestUpload ==
  /\ UNCHANGED <<upVars, mdVars, modeVars, rxVars>>
  /\ pc = "h_upload"
  /\ IF idx > Len(files_to_upload)
     THEN /\ pc' = "h_close"
          /\ UNCHANGED <<idx, failed_count, volume, sectors, cycleSets,
                         cycleOps>>
     ELSE LET f == files_to_upload[idx]
          IN \E ok \in BOOLEAN :
               /\ idx' = NextEntry(ok, idx, Len(files_to_upload))
               /\ pc' = "h_upload"
               /\ volume' = RemoveIfOk(ok, f, volume)
               /\ sectors' = (IF ok THEN HarvestWrote(sectors) ELSE sectors)
               /\ failed_count' = IF ok THEN failed_count ELSE failed_count + 1
               /\ cycleOps' = Append(cycleOps, <<"upload", f>>)
               /\ cycleTried' = cycleTried \cup {f}
               /\ cycleOk' = IF ok THEN cycleOk \cup {f} ELSE cycleOk
               /\ cycleRemoved' = cycleRemoved \cup (volume \ volume')
  /\ UNCHANGED <<cfgVars, now, gadget, mounted, hostAttached, boot_start,
                 start_time, monVars, files_to_upload, caller, cycleNet,
                 sessHist>>

\* harvest_and_upload() 198-212: close the bearer, unmount, load the gadget
HarvestClose ==
  /\ UNCHANGED <<upVars, mdVars, modeVars, rxVars>>
  /\ pc = "h_close"
  /\ ExposeAgain
  /\ pc' = "h_ret"
  /\ Did(<<"close_bearer", "unmount", "load">>)
  /\ UNCHANGED <<cfgVars, now, hostAttached, sectors, volume, boot_start,
                 start_time, monVars, cycleVars, cycleSets, cycleNet,
                 sessHist>>

\* --------------------------------------------------------------------- host
\* While the gadget is not loaded and the monitor is not polling, plugging and
\* unplugging has no effect the program can see before the next poll.
HostAttach ==
  /\ UNCHANGED <<upVars, mdVars, modeVars, rxVars>>
  /\ (pc = "monitor" \/ gadget) /\ pc \notin {"exit", "interrupted"}
  /\ ~hostAttached
  /\ hostAttached' = TRUE
  /\ lastHostWrite' = IF host_was_connected THEN lastHostWrite ELSE NoTime
  /\ UNCHANGED <<cfgVars, now, gadget, mounted, sectors, volume, pc,
                 boot_start, start_time, monVars, cycleVars, cycleHist>>

HostDetach ==
  /\ UNCHANGED <<upVars, mdVars, modeVars, rxVars>>
  /\ (pc = "monitor" \/ gadget) /\ pc \notin {"exit", "interrupted"}
  /\ hostAttached
  /\ hostAttached' = FALSE
  /\ UNCHANGED <<cfgVars, now, gadget, mounted, sectors, volume, pc,
                 boot_start, start_time, monVars, cycleVars, cycleHist,
                 sessHist>>

\* The host writes to the exposed device: a new file, or more of a file.  The
\* write counter is read by the monitor loop only: outside it the origin of
\* the counter follows the counter, and the session's history is not kept.
HostWrite ==
  /\ UNCHANGED <<upVars, mdVars, modeVars, rxVars>>
  /\ pc \notin {"exit", "interrupted"} /\ gadget /\ hostAttached
  /\ \E f \in Files : volume' = volume \cup {f}
  /\ IF pc = "monitor"
     THEN /\ sectors < MaxSectors
          /\ sectors' = sectors + 1 /\ lastHostWrite' = now
     ELSE UNCHANGED <<sectors, lastHostWrite>>
  /\ UNCHANGED <<cfgVars, now, gadget, mounted, hostAttached, pc, boot_start,
                 start_time, monVars, cycleVars, cycleHist>>

Next ==
  \/ BootStart \/ BootLoop \/ StartupMount \/ StartupNetwork \/ StartupUpload
  \/ StartupClose \/ BootSleep \/ BootTick \/ LoadGadget
  \/ PollDecide \/ HarvestReturn \/ MonitorTick
  \/ HarvestEnter \/ HarvestUnload \/ HarvestMount \/ HarvestScan \/ HarvestNetwork
  \/ HarvestUpload \/ HarvestClose
  \/ HostAttach \/ HostDetach \/ HostWrite

Spec == Init /\ [][Next]_vars

\* ------------------------------------------------- errors in the monitor loop
\* main() 407-466: the body of `while True` is inside `try`

\* `time.sleep(10)` of the handler (466)
ErrorBackoff == 10

\* the statements of the loop: the poll, the harvest cycle it calls, the
\* handler of `except Exception`
LoopPcs == {"monitor", "h_enter", "h_unload", "h_mount", "h_scan",
            "h_network", "h_upload", "h_close", "h_ret", "backoff"}

Uncaught == "exit"

\* `except Exception as e: log.error(...)` (464-465): where an exception of
\* the body goes
Caught == "backoff"

\* a statement of the iteration raises an exception: in the poll (408-436,
\* 446-459) or inside harvest_and_upload() (a subprocess that cannot be
\* started, the serial port, the file system).  The locals of
\* harvest_and_upload() are gone, the locals of main() are as they were.
Raise ==
  /\ UNCHANGED <<upVars, mdVars, modeVars, rxVars>>
  /\ \/ pc = "monitor" /\ now = nextPoll
     \/ pc \in {"h_unload", "h_mount", "h_scan", "h_network", "h_upload",
                "h_close"} /\ caller # "boot"
  /\ now <= MaxTime
  /\ pc' = Caught
  /\ EndCycle
  /\ UNCHANGED <<cfgVars, now, gadget, mounted, hostAttached, sectors, volume,
                 boot_start, start_time, monVars, caller, sessHist>>

\* `time.sleep(10)` (466), then the next iteration of `while True`
Backoff ==
  /\ UNCHANGED <<upVars, mdVars, modeVars, rxVars>>
  /\ pc = "backoff"
  /\ now' = now + ErrorBackoff /\ nextPoll' = now'
  /\ pc' = "monitor"
  /\ UNCHANGED <<cfgVars, gadget, mounted, hostAttached, sectors, volume,
                 boot_start, start_time, baseline_sectors, last_seen_sectors,
                 last_write_time, host_was_connected, cycleVars, cycleHist,
                 sessHist>>

\* `except KeyboardInterrupt: break` (461-463), `return 0`; in the handler's
\* sleep the interrupt ends the process as well.  The locals of main() are
\* gone, the device stays as it is.
Interrupt ==
  /\ UNCHANGED <<upVars, mdVars, modeVars, rxVars>>
  /\ pc \in LoopPcs
  /\ pc' = "interrupted"
  /\ now' = 0 /\ nextPoll' = 0 /\ sectors' = 0
  /\ baseline_sectors' = 0 /\ last_seen_sectors' = 0
  /\ last_write_time' = NoTime /\ host_was_connected' = FALSE
  /\ lastHostWrite' = NoTime
  /\ EndCycle
  /\ UNCHANGED <<cfgVars, gadget, mounted, hostAttached, volume, boot_start,
                 start_time, caller>>

\* main() 394-405: load_usb_gadget() has succeeded, the monitor loop begins
\* with nothing mounted, no host and an empty volume
InitErr ==
  /\ ModemAt("uploads")
  /\ progress = NoProgress /\ upc = "idle" /\ filepath = 0 /\ saved = FALSE
  /\ NoUpload
  /\ quiet_window \in QuietWindows /\ poll_interval \in PollIntervals
  /\ boot_upload_timeout = 0
  /\ now = 0 /\ gadget = TRUE /\ mounted = FALSE /\ hostAttached = FALSE
  /\ sectors = 0 /\ volume = {}
  /\ pc = "monitor"
  /\ boot_start = 0 /\ start_time = 0
  /\ baseline_sectors = 0 /\ last_seen_sectors = 0
  /\ last_write_time = NoTime /\ host_was_connected = FALSE
  /\ nextPoll = 0
  /\ files_to_upload = <<>> /\ idx = 1 /\ failed_count = 0 /\ caller = "boot"
  /\ cycleTried = {} /\ cycleOk = {} /\ cycleRemoved = {} /\ cycleNet = "none"
  /\ cycleOps = <<>>
  /\ lastHostWrite = NoTime

NextErr ==
  \/ PollDecide \/ HarvestReturn \/ MonitorTick
  \/ HarvestEnter \/ HarvestUnload \/ HarvestMount \/ HarvestScan \/ HarvestNetwork
  \/ HarvestUpload \/ HarvestClose
  \/ HostAttach \/ HostDetach \/ HostWrite
  \/ Raise \/ Backoff \/ Interrupt

\* the monitor loop with statements that can fail
SpecErr == InitErr /\ [][NextErr]_vars

\* The boot phase is straight-line code of the one process (main.py 373-396):
\* whenever its next statement can run, it eventually runs.  Nothing is
\* assumed about the clock between statements or about the host.
BootProgram ==
  \/ BootStart \/ BootLoop \/ StartupMount \/ StartupNetwork \/ StartupUpload
  \/ StartupClose \/ BootSleep \/ LoadGadget

\* the service from its start to the end of load_usb_gadget() at main.py 394,
\* with the clock and the host free
NextBoot == BootProgram \/ BootTick \/ HostAttach \/ HostDetach

SpecBoot == Init /\ [][NextBoot]_vars /\ WF_vars(BootProgram)


\* ==================================================================== uploads
\* modem_handler.py, SIM7000GHandler.upload_ftp() and the progress record

Min(a, b) == IF a <= b THEN a ELSE b

SaveProgressAtZero(f, b, t) ==
  [present |-> TRUE, filepath |-> f, bytes_sent |-> 0, timestamp |-> t]

SaveProgressUnnamed(f, b, t) ==
  [present |-> TRUE, filepath |-> 0, bytes_sent |-> b, timestamp |-> t]

\* save_progress(filepath, bytes_sent) 100-111
save_progress(f, b, t) ==
  [present |-> TRUE, filepath |-> f, bytes_sent |-> b, timestamp |-> t]

LoadProgressAnyAge(p, f, t) ==
  IF p.present /\ p.filepath = f THEN p.bytes_sent ELSE 0

LoadProgressAnyFile(p, f, t) ==
  IF p.present /\ t - p.timestamp < ResumeMaxAge THEN p.bytes_sent ELSE 0

\* load_progress(filepath) 113-126: the recorded offset when the record
\* exists, names filepath and is less than an hour old, else 0
load_progress(p, f, t) ==
  IF p.present /\ p.filepath = f /\ t - p.timestamp < ResumeMaxAge
  THEN p.bytes_sent ELSE 0

KeepProgress(p) == p

\* clear_progress() 128-134
clear_progress(p) == NoProgress

ResumeNever(r, size) == 0

\* upload_ftp() 154-160: resume only from an offset inside the file
ResumeOffset(r, size) == IF r > 0 /\ r < size THEN r ELSE 0

\* upload_ftp() 191-196: int() of the last field of the ready line, capped by
\* chunk_size; 1000 when the field is not an integer
ParseMaxChunk(report) ==
  IF report = NoNumber THEN DefaultChunk ELSE Min(report, chunk_size)

\* the variables of main.py a sequence of uploads leaves alone
mainIdle == <<cfgVars, gadget, mounted, hostAttached, sectors, pc, boot_start,
              start_time, monVars, cycleVars, cycleHist, sessHist, mdVars,
              modeVars, rxVars>>

\* upload_ftp() 147-179: the file must exist; read the progress record, choose
\* APPE or STOR, configure the FTP parameters, request the PUT session
\* upload_ftp() 175-179: 'AT+FTPPUTOPT="APPE"' adds to the remote file of
\* this name, 'AT+FTPPUTOPT="STOR"' creates it anew
RemoteAtOpen(append, same, d) == IF append /\ same THEN d ELSE <<>>

UploadCall ==
  /\ upc = "idle" /\ mpc = "uploads"
  /\ \E f \in Files :
       IF f \notin volume
       THEN /\ ret' = "failed"
            /\ msg' = [kind |-> "File not found", at |-> 0]
            /\ UNCHANGED <<upc, filepath, filesize, resume_from, use_append,
                           saved, delivered>>
       ELSE LET r == ResumeOffset(load_progress(progress, f, now), FileSize(f))
            IN /\ filepath' = f /\ filesize' = FileSize(f)
               /\ resume_from' = r /\ use_append' = (r > 0)
               /\ delivered' = RemoteAtOpen(r > 0, f = filepath, delivered)
               /\ saved' = FALSE /\ ret' = "none" /\ msg' = NoMsg
               /\ upc' = "open"
  /\ UNCHANGED <<progress, max_chunk, bytes_sent, fpos, chunk_off, chunk_len,
                 attempt, acked, retried, announced, wire>>
  /\ UNCHANGED <<mainIdle, now, volume>>

SessionAssumed(ok) == TRUE

\* upload_ftp() 187-189: `if not ok: return False, ...`
SessionReady(ok) == ok

\* upload_ftp() 181-208: wait for "+FTPPUT: 1,1"; on failure return; else take
\* the chunk length from the ready line, open the file and seek
OpenSession ==
  /\ upc = "open"
  /\ \E ok \in BOOLEAN :
       /\ wire' = (IF ok THEN <<>> ELSE << <<"noready", 0, 0>> >>)
       /\ UNCHANGED delivered
       /\ IF ~SessionReady(ok)
          THEN /\ ret' = "failed" /\ upc' = "done"
               /\ msg' = [kind |-> "Failed to open FTP session", at |-> 0]
               /\ UNCHANGED <<max_chunk, bytes_sent, fpos>>
          ELSE \E report \in MaxLenReports :
                 /\ max_chunk' = ParseMaxChunk(report)
                 /\ bytes_sent' = resume_from
                 /\ fpos' = (IF resume_from > 0 THEN resume_from ELSE 0)
                 /\ upc' = "stream"
                 /\ UNCHANGED <<ret, msg>>
  /\ UNCHANGED <<progress, filepath, filesize, resume_from, use_append,
                 chunk_off, chunk_len, attempt, acked, saved, retried,
                 announced>>
  /\ UNCHANGED <<mainIdle, now, volume>>

ChunkNeverEmpty(n) == FALSE

\* upload_ftp() 219-220: `if not chunk: break`
ChunkEmpty(n) == n = 0

\* upload_ftp() 210-223: `while bytes_sent < filesize`, f.read(max_chunk),
\* `if not chunk: break`
StreamNext ==
  /\ upc = "stream"
  /\ IF bytes_sent < filesize
     THEN LET n == IF fpos < filesize THEN Min(max_chunk, filesize - fpos)
                   ELSE 0
          IN /\ chunk_off' = fpos /\ chunk_len' = n /\ fpos' = fpos + n
             /\ attempt' = 0
             /\ upc' = (IF ChunkEmpty(n) THEN "close" ELSE "announce")
     ELSE /\ upc' = "close"
          /\ UNCHANGED <<chunk_off, chunk_len, fpos, attempt>>
  /\ announced' = <<>> /\ wire' = <<>>
  /\ UNCHANGED <<progress, filepath, filesize, resume_from, use_append,
                 max_chunk, bytes_sent, ret, msg, acked, saved, retried,
                 delivered>>
  /\ UNCHANGED <<mainIdle, now, volume>>

RetryAgainOnceMore(a) == a < max_retries

\* upload_ftp() 226: `for attempt in range(max_retries)`: after the failed
\* attempt a (0, 1, ...) there is another one
RetryAgain(a) == a + 1 < max_retries

CountWritten(b, n) == b + n

\* upload_ftp() 255: save_progress(filepath, bytes_sent), before the failed
\* chunk of n bytes is counted
FailedAt(b, n) == b

\* upload_ftp() 232-236, 247-256: the attempt failed; the next attempt, or
\* after max_retries attempts save_progress(filepath, bytes_sent) and return
AttemptFailed ==
  /\ attempt' = attempt + 1
  /\ IF RetryAgain(attempt)
     THEN /\ upc' = "announce"
          /\ UNCHANGED <<progress, ret, msg, saved>>
     ELSE /\ progress' = save_progress(filepath,
                                      FailedAt(bytes_sent, chunk_len), now)
          /\ saved' = TRUE
          /\ ret' = "failed" /\ upc' = "done"
          /\ msg' = [kind |-> "Failed at byte", at |-> bytes_sent]

PromptAssumed(ok) == TRUE

\* upload_ftp() 231-236: `if not ok: ... continue`: the attempt goes on to
\* the data only when wait_for_response("+FTPPUT: 2,") returned True
PromptReceived(ok) == ok

\* upload_ftp() 226-236: "AT+FTPPUT=2,<chunk_len>", wait for the prompt
\* "+FTPPUT: 2,"
Announce ==
  /\ upc = "announce"
  /\ \E ok \in BOOLEAN :
       /\ IF PromptReceived(ok)
          THEN /\ upc' = "data"
               /\ UNCHANGED <<progress, attempt, ret, msg, saved>>
          ELSE AttemptFailed
       /\ wire' = << <<"announce", chunk_off, chunk_len>>,
                     <<(IF ok THEN "prompt" ELSE "noprompt"), chunk_off, 0>> >>
  /\ announced' = Append(announced, <<chunk_off, chunk_len>>)
  /\ UNCHANGED <<filepath, filesize, resume_from, use_append, max_chunk,
                 bytes_sent, fpos, chunk_off, chunk_len, acked, retried,
                 delivered>>
  /\ UNCHANGED <<mainIdle, now, volume>>

SaveNever(b, mc) == FALSE

\* upload_ftp() 263: `if bytes_sent % (500 * 1024) < max_chunk`
SaveDue(b, mc) == b % SaveEvery < mc

\* whether the modem sent on a chunk it did not acknowledge in time
MayTake(d, a) == IF Len(d) - Len(a) < MaxUnacked THEN BOOLEAN ELSE {FALSE}

\* upload_ftp() 238-264: write the chunk, wait for OK; acknowledged: count the
\* chunk and save the progress about every 500 KiB.  The modem asked for the
\* chunk's bytes and they were written to it: when its OK is not read within
\* the 15 s (lost, late, or ERROR), it has sent them on or it has not.
DataAck ==
  /\ upc = "data"
  /\ \E ok \in BOOLEAN :
       /\ wire' = wire \o << <<"data", chunk_off, chunk_len>>,
                             <<(IF ok THEN "ack" ELSE "noack"), chunk_off, 0>> >>
       /\ IF ok
          THEN /\ bytes_sent' = bytes_sent + chunk_len
               /\ acked' = Append(acked, <<chunk_off, chunk_len>>)
               /\ delivered' = Append(delivered, <<chunk_off, chunk_len>>)
               /\ retried' = (IF attempt > retried THEN attempt ELSE retried)
               /\ IF SaveDue(bytes_sent', max_chunk)
                  THEN /\ progress' = save_progress(filepath, bytes_sent', now)
                       /\ saved' = TRUE
                  ELSE UNCHANGED <<progress, saved>>
               /\ upc' = "stream"
               /\ UNCHANGED <<attempt, ret, msg>>
          ELSE /\ AttemptFailed
               /\ \E taken \in MayTake(delivered, acked) :
                    delivered' = (IF taken
                                  THEN Append(delivered,
                                              <<chunk_off, chunk_len>>)
                                  ELSE delivered)
               /\ UNCHANGED <<bytes_sent, acked, retried>>
  /\ UNCHANGED <<filepath, filesize, resume_from, use_append, max_chunk,
                 fpos, chunk_off, chunk_len, announced>>
  /\ UNCHANGED <<mainIdle, now, volume>>

\* upload_ftp() 266-278: "AT+FTPPUT=2,0", wait for "+FTPPUT: 1,0"; confirmed:
\* clear_progress(), return True; else save_progress(), return False
CloseOutcome(ok) ==
  /\ IF ok
     THEN /\ progress' = clear_progress(progress)
          /\ ret' = "ok"
          /\ msg' = [kind |-> "Upload successful", at |-> 0]
          /\ UNCHANGED saved
     ELSE /\ progress' = save_progress(filepath, bytes_sent, now)
          /\ saved' = TRUE
          /\ ret' = "failed"
          /\ msg' = [kind |-> "Upload may have failed", at |-> 0]
  /\ upc' = "done"
  /\ wire' = Append(wire, <<"end", bytes_sent, 0>>)
  /\ UNCHANGED <<filepath, filesize, resume_from, use_append, max_chunk,
                 bytes_sent, fpos, chunk_off, chunk_len, attempt, acked,
                 retried, announced, delivered>>

CloseSession ==
  /\ upc = "close"
  /\ \E ok \in BOOLEAN : CloseOutcome(ok)
  /\ UNCHANGED <<mainIdle, now, volume>>

\* the caller, main.py 186-190 and 347-351: `if ok: os.remove(filepath)`;
\* the locals of upload_ftp() are gone
UploadReturn ==
  /\ upc = "done"
  /\ volume' = RemoveIfOk(ret = "ok", filepath, volume)
  /\ upc' = "idle"
  /\ filesize' = 0 /\ resume_from' = 0 /\ use_append' = FALSE
  /\ max_chunk' = 0 /\ bytes_sent' = 0 /\ fpos' = 0 /\ chunk_off' = 0
  /\ chunk_len' = 0 /\ attempt' = 0 /\ ret' = "none" /\ acked' = <<>>
  /\ retried' = 0 /\ msg' = NoMsg /\ announced' = <<>> /\ wire' = <<>>
  /\ delivered' = <<>>
  /\ UNCHANGED <<progress, filepath, saved>>
  /\ UNCHANGED <<mainIdle, now>>

\* time passing between two uploads and between two chunks
UploadTick ==
  /\ upc \in {"idle", "stream"} /\ mpc = "uploads"
  /\ \E d \in TickSteps : now + d <= MaxClock /\ now' = now + d
  /\ UNCHANGED upVars
  /\ UNCHANGED <<mainIdle, volume>>

\* main.py while harvest_and_upload() is in its upload loop, the volume
\* mounted and holding all the files
MainAtUpload ==
  /\ quiet_window = 0 /\ poll_interval = 0 /\ boot_upload_timeout = 0
  /\ now = 0
  /\ gadget = FALSE /\ mounted = TRUE /\ hostAttached = FALSE
  /\ sectors = 0
  /\ volume = Files
  /\ pc = "h_upload"
  /\ boot_start = 0 /\ start_time = 0
  /\ baseline_sectors = 0 /\ last_seen_sectors = 0
  /\ last_write_time = NoTime /\ host_was_connected = FALSE
  /\ nextPoll = 0
  /\ files_to_upload = <<>> /\ idx = 1 /\ failed_count = 0 /\ caller = "quiet"
  /\ cycleTried = {} /\ cycleOk = {} /\ cycleRemoved = {} /\ cycleNet = "ok"
  /\ cycleOps = <<>>
  /\ lastHostWrite = NoTime

\* a mounted volume holding all the files, no progress record, no upload
UploadStart ==
  /\ MainAtUpload
  /\ progress = NoProgress /\ upc = "idle" /\ filepath = 0 /\ saved = FALSE
  /\ NoUpload

\* the uploads of a cycle whose setup_network() has returned
InitUpload == UploadStart /\ ModemAt("uploads")

NextUpload ==
  \/ UploadCall \/ OpenSession \/ StreamNext \/ Announce \/ DataAck
  \/ CloseSession \/ UploadReturn \/ UploadTick

SpecUpload == InitUpload /\ [][NextUpload]_vars

\* ------------------------------------------- after a failed upload of a file
\* the file whose upload failed, and the offset of the record it left: the
\* end of a first chunk of 1360 bytes
ResumeFile == NumFiles
ResumeAt == ParseMaxChunk(1360)
ResumeRecord == save_progress(ResumeFile, ResumeAt, 0)

\* upload_ftp() has returned False after save_progress() at 255; the file is
\* still on the volume
InitResume ==
  /\ MainAtUpload /\ ModemAt("uploads")
  /\ progress = ResumeRecord /\ upc = "idle" /\ filepath = ResumeFile
  /\ saved = TRUE
  /\ NoUpload

\* the next call of upload_ftp() for the file has not begun
BeforeResume == upc = "idle" \/ filepath # ResumeFile

\* uploads up to the beginning of the next upload of the file
NextResume ==
  \/ BeforeResume /\ UploadCall
  \/ BeforeResume /\ OpenSession
  \/ BeforeResume /\ StreamNext
  \/ BeforeResume /\ Announce
  \/ BeforeResume /\ DataAck
  \/ BeforeResume /\ CloseSession
  \/ BeforeResume /\ UploadReturn
  \/ BeforeResume /\ UploadTick

SpecResume == InitResume /\ [][NextResume]_vars

\* ------------------------------------------------ the stream of a large file
\* os.path.getsize() of a file of more than 500 KiB
StreamSizes == {SaveEvery + 1, 2 * SaveEvery + 70000, 3 * SaveEvery}
\* <maxlength> reported for it
StreamReports == {200000, 300000, 1024000}
\* what load_progress() returned for it
StreamResumes == {0, 100000, SaveEvery - 1}

\* upload_ftp() at 210, the session open (187-208): bytes_sent = resume_from,
\* the file positioned there; a record exists exactly when the upload resumes
InitStream ==
  /\ MainAtUpload /\ ModemAt("stream")
  /\ upc = "stream" /\ filepath = 2
  /\ filesize \in StreamSizes
  /\ \E report \in StreamReports : max_chunk = ParseMaxChunk(report)
  /\ resume_from \in StreamResumes
  /\ resume_from = ResumeOffset(resume_from, filesize)
  /\ use_append = (resume_from > 0)
  /\ progress = (IF resume_from > 0 THEN save_progress(filepath, resume_from, 0)
                 ELSE NoProgress)
  /\ bytes_sent = resume_from /\ fpos = resume_from
  /\ chunk_off = 0 /\ chunk_len = 0 /\ attempt = 0 /\ ret = "none"
  /\ msg = NoMsg /\ acked = <<>> /\ saved = FALSE /\ retried = 0
  /\ announced = <<>> /\ wire = <<>> /\ delivered = <<>>

NextStream == StreamNext \/ Announce \/ DataAck \/ CloseSession

SpecStream == InitStream /\ [][NextStream]_vars

\* --------------------------------------------------- a crash and a later run
\* The process dies while upload_ftp() is in its chunk loop or at the end of
\* the data; what stays is the progress file and what the server has of the
\* remote file.  A later run of the service calls upload_ftp() for the same
\* file again, within the hour.

\* upload_ftp() of a large file in the first run, at 210: no record, STOR
InitCrash ==
  /\ MainAtUpload /\ ModemAt("run")
  /\ upc = "stream" /\ filepath = 2
  /\ filesize \in StreamSizes
  /\ \E report \in StreamReports : max_chunk = ParseMaxChunk(report)
  /\ resume_from = 0 /\ use_append = FALSE
  /\ progress = NoProgress
  /\ bytes_sent = 0 /\ fpos = 0
  /\ chunk_off = 0 /\ chunk_len = 0 /\ attempt = 0 /\ ret = "none"
  /\ msg = NoMsg /\ acked = <<>> /\ saved = FALSE /\ retried = 0
  /\ announced = <<>> /\ wire = <<>> /\ delivered = <<>>

\* the crash, and upload_ftp() 147-208 in the later run: the offset from the
\* record (154-160), APPE or STOR (175-179), the session opened with the same
\* chunk length, bytes_sent = resume_from (201), f.seek(resume_from) (208)
CrashAndRerun ==
  /\ mpc = "run" /\ upc \in {"stream", "announce", "data", "close"}
  /\ LET r == ResumeOffset(load_progress(progress, filepath, now), filesize)
     IN /\ resume_from' = r /\ use_append' = (r > 0)
        /\ bytes_sent' = r /\ fpos' = r
        /\ delivered' = RemoteAtOpen(r > 0, TRUE, delivered)
  /\ mpc' = "rerun" /\ upc' = "stream"
  /\ chunk_off' = 0 /\ chunk_len' = 0 /\ attempt' = 0
  /\ acked' = <<>> /\ saved' = FALSE /\ retried' = 0
  /\ announced' = <<>> /\ wire' = <<>>
  /\ UNCHANGED <<progress, filepath, filesize, max_chunk, ret, msg>>
  /\ UNCHANGED <<call, wpc, elapsed, response, creg_i, net_ret, sent>>
  /\ UNCHANGED <<mainVars, modeVars, rxVars>>

NextCrash ==
  \/ StreamNext \/ Announce \/ DataAck \/ CloseSession \/ CrashAndRerun

SpecCrash == InitCrash /\ [][NextCrash]_vars

\* ====================================================================== modem
\* modem_handler.py, send_at(), wait_for_response(), setup_network() and
\* close_bearer()

\* what the modem can put on the serial line
Pieces == {"OK", "ERROR", "0.0.0.0", "10.0.0.1", ",1"}

\* seconds in units of 50 ms
Seconds(n) == 20 * n

\* time.sleep(0.05) in send_at (30), time.sleep(0.1) in wait_for_response (48)
SleepOf(kind) == IF kind = "send_at" THEN 1 ELSE 2

\* the waits of upload_ftp() for the modem's "OK" (239)
WaitCalls == {<<"OK", 15>>}

\* send_at() 17-22 and wait_for_response() 37-38: the wait begins with an
\* empty response; input that arrived earlier is not looked at
BeginWait(kind, e, t) ==
  /\ call' = [kind |-> kind, expected |-> e, timeout |-> Seconds(t)]
  /\ wpc' = "loop" /\ elapsed' = 0 /\ response' = {}

\* send_at(command, timeout=t) 15-22: the command is written, the wait begins
SendAt(command, t) ==
  /\ BeginWait("send_at", "OK", t)
  /\ sent' = (IF sent # <<>> /\ sent[Len(sent)] = command THEN sent
               ELSE Append(sent, command))

\* send_at() 33 returns `expected in response` or False after the timeout,
\* wait_for_response() 43, 46, 50 likewise
WaitOk == wpc = "ret" /\ Contains(response, call.expected)

SleepForever(e, d, t) == e

\* time.sleep(d) in a wait with timeout t: at least d passes; what matters
\* of the clock is its comparison with t
Slept(e, d, t) == Min(e + d, t)

\* one iteration of `while time.time() - start_time < timeout` (send_at 23-30,
\* wait_for_response 39-48), or its exit (31-33, 49-50)
WaitPoll ==
  /\ wpc = "loop"
  /\ IF elapsed < call.timeout
     THEN \E arrived \in SUBSET Pieces :
            LET text == response \cup arrived
            IN /\ response' = text
               /\ IF arrived # {} /\ (Contains(text, call.expected)
                                       \/ Contains(text, "ERROR"))
                  THEN wpc' = "ret" /\ UNCHANGED elapsed
                  ELSE /\ wpc' = "loop"
                       /\ \E d \in {SleepOf(call.kind), call.timeout} :
                            elapsed' = Slept(elapsed, d, call.timeout)
     ELSE wpc' = "ret" /\ UNCHANGED <<elapsed, response>>
  /\ UNCHANGED <<mpc, call, creg_i, net_ret, sent>>
  /\ UNCHANGED <<mainVars, upVars, modeVars, rxVars>>

\* setup_network() 52-57: send_at("AT", timeout=2)
SetupNetworkCall ==
  /\ mpc = "idle"
  /\ mpc' = "at" /\ SendAt("AT", 2)
  /\ UNCHANGED <<creg_i, net_ret>>
  /\ UNCHANGED <<mainVars, upVars, modeVars, rxVars>>

\* `for i in range(10)` (68)
CregTries == 10

ProbeIgnored(ok) == FALSE

\* setup_network() 58-59: `if not ok: return False, "Modem not responding"`
ProbeFailed(ok) == ~ok

\* setup_network() 58-87: the statement after a send_at that has returned;
\* ",1" stands for either registration status, ",1" or ",5" (70)
SetupNetworkStep ==
  /\ wpc = "ret"
  /\ mpc \in {"at", "csq", "cfun", "creg", "contype", "apn", "open", "query"}
  /\ CASE mpc = "at" ->
            IF ProbeFailed(WaitOk)
            THEN /\ mpc' = "net_done" /\ wpc' = "none"
                 /\ net_ret' = setup_network(FALSE, response)
                 /\ UNCHANGED <<call, elapsed, response, creg_i, sent>>
            ELSE /\ mpc' = "csq" /\ SendAt("AT+CSQ", 5)
                 /\ UNCHANGED <<creg_i, net_ret>>
       [] mpc = "csq" ->
            /\ mpc' = "cfun" /\ SendAt("AT+CFUN=1", 5)
            /\ UNCHANGED <<creg_i, net_ret>>
       [] mpc = "cfun" ->
            /\ mpc' = "creg" /\ SendAt("AT+CREG?", 2)
            /\ creg_i' = 0 /\ UNCHANGED net_ret
       [] mpc = "creg" ->
            IF Contains(response, ",1") \/ creg_i + 1 >= CregTries
            THEN /\ mpc' = "contype" /\ SendAt("AT+SAPBR=3,1,Contype", 5)
                 /\ creg_i' = 0 /\ UNCHANGED net_ret
            ELSE /\ mpc' = "creg" /\ SendAt("AT+CREG?", 2)
                 /\ creg_i' = creg_i + 1 /\ UNCHANGED net_ret
       [] mpc = "contype" ->
            /\ mpc' = "apn" /\ SendAt("AT+SAPBR=3,1,APN", 5)
            /\ UNCHANGED <<creg_i, net_ret>>
       [] mpc = "apn" ->
            /\ mpc' = "open" /\ SendAt("AT+SAPBR=1,1", 10)
            /\ UNCHANGED <<creg_i, net_ret>>
       [] mpc = "open" ->
            /\ mpc' = "query" /\ SendAt("AT+SAPBR=2,1", 5)
            /\ UNCHANGED <<creg_i, net_ret>>
       [] mpc = "query" ->
            /\ mpc' = "net_done" /\ wpc' = "none"
            /\ net_ret' = setup_network(TRUE, response)
            /\ UNCHANGED <<call, elapsed, response, creg_i, sent>>
  /\ UNCHANGED <<mainVars, upVars, modeVars, rxVars>>

\* close_bearer() 280-282: send_at('AT+SAPBR=0,1', timeout=5)
CloseBearerCall ==
  /\ mpc = "idle"
  /\ mpc' = "close" /\ SendAt("AT+SAPBR=0,1", 5)
  /\ UNCHANGED <<creg_i, net_ret>>
  /\ UNCHANGED <<mainVars, upVars, modeVars, rxVars>>

\* wait_for_response(expected, timeout) as upload_ftp() calls it
WaitForResponseCall ==
  /\ mpc = "idle"
  /\ \E w \in WaitCalls : mpc' = "wait" /\ BeginWait("wait", w[1], w[2])
  /\ UNCHANGED <<creg_i, net_ret, sent>>
  /\ UNCHANGED <<mainVars, upVars, modeVars, rxVars>>

\* close_bearer() and wait_for_response() return to their caller
WaitReturn ==
  /\ wpc = "ret" /\ mpc \in {"close", "wait"}
  /\ mpc' = IF mpc = "close" THEN "close_done" ELSE "wait_done"
  /\ wpc' = "none"
  /\ UNCHANGED <<call, elapsed, response, creg_i, net_ret, sent>>
  /\ UNCHANGED <<mainVars, upVars, modeVars, rxVars>>

\* the caller goes on: to another call, or, after a successful
\* setup_network(), to the uploads (main.py 162-175)
ModemReturn ==
  /\ mpc \in {"net_done", "close_done", "wait_done"}
  /\ \/ mpc' = "idle"
     \/ mpc = "net_done" /\ net_ret = "ok" /\ mpc' = "uploads"
  /\ call' = NoCall /\ wpc' = "none" /\ elapsed' = 0 /\ response' = {}
  /\ creg_i' = 0 /\ net_ret' = "none" /\ sent' = <<>>
  /\ UNCHANGED <<mainVars, upVars, modeVars, rxVars>>

InitModem == UploadStart /\ ModemAt("idle")

\* the calls of the handler and, after setup_network(), the uploads; all
\* uploads start within the hour of the progress record
NextModem ==
  \/ SetupNetworkCall \/ SetupNetworkStep \/ CloseBearerCall
  \/ WaitForResponseCall \/ WaitPoll \/ WaitReturn \/ ModemReturn
  \/ UploadCall \/ OpenSession \/ StreamNext \/ Announce \/ DataAck
  \/ CloseSession \/ UploadReturn

\* The handler is sequential code of one process: the statement it is at
\* eventually runs.  Nothing is assumed about what the modem sends, about
\* when the caller makes its next call, or about the clock between uploads.
ModemProgram ==
  \/ SetupNetworkStep \/ WaitPoll \/ WaitReturn
  \/ OpenSession \/ StreamNext \/ Announce \/ DataAck \/ CloseSession

SpecModem == InitModem /\ [][NextModem]_vars /\ WF_vars(ModemProgram)

\* ------------------------------------------- the wait, character by character
\* send_at() 15-33 and wait_for_response() 35-50 with the response as the
\* string the code accumulates, for any cut of the modem's text into reads

TokOK == <<"O", "K">>
TokERROR == <<"E", "R", "R", "O", "R">>

\* what the modem sends in answer to a command: the expected token, ERROR,
\* both in either order, parts of them, text around them, nothing
Lines ==
  { <<>>, TokOK, TokERROR, TokERROR \o TokOK, TokOK \o TokERROR,
    <<"x">> \o TokOK \o <<"x">>, <<"O">>, <<"K", "O">>,
    <<"E", "R", "R", "O">>, <<"E", "R", "R">> \o TokOK,
    <<"O">> \o TokERROR, <<"O", "x", "K">> }

\* the timeouts of the waits, in units of 50 ms
RxTimeouts == {Seconds(1)}

\* `token in text` of Python strings
Has(text, token) ==
  \E i \in 1..(Len(text) - Len(token) + 1) :
    SubSeq(text, i, i + Len(token) - 1) = token

LastReadOnly(resp, chunk) == chunk

\* `response += self.ser.read(self.ser.in_waiting).decode(...)` (25, 41)
Accumulate(resp, chunk) == resp \o chunk

\* what the wait returns when it sees a token: send_at `expected in response`
\* (29); wait_for_response True for the expected token, else False for ERROR
\* (42-47)
Returned(kind, text, e) ==
  IF kind = "send_at" THEN Has(text, e)
  ELSE IF Has(text, e) THEN TRUE ELSE FALSE

\* the wait begins (17-22, 37-38)
TokenCall ==
  /\ mpc = "rx" /\ wpc = "none"
  /\ \E kind \in {"send_at", "wait"}, t \in RxTimeouts, l \in Lines :
       /\ call' = [kind |-> kind, expected |-> TokOK, timeout |-> t]
       /\ line' = l
  /\ wpc' = "loop" /\ elapsed' = 0 /\ response' = <<>>
  /\ got' = <<>> /\ wok' = "none"
  /\ UNCHANGED <<mpc, creg_i, net_ret, sent>>
  /\ UNCHANGED <<mainVars, upVars, modeVars>>

\* one iteration of the while loop (23-30, 39-48): n characters are waiting
\* and are read; or the exit of the loop (31-33, 49-50)
TokenPoll ==
  /\ mpc \in {"rx", "c_send", "c_wait"} /\ wpc = "loop"
  /\ IF elapsed < call.timeout
     THEN \E n \in 0..Len(line) :
            LET chunk == SubSeq(line, 1, n)
                text == IF n > 0 THEN Accumulate(response, chunk) ELSE response
            IN /\ response' = text
               /\ got' = got \o chunk
               /\ line' = SubSeq(line, n + 1, Len(line))
               /\ IF n > 0 /\ (Has(text, call.expected) \/ Has(text, TokERROR))
                  THEN /\ wpc' = "ret"
                       /\ wok' = Returned(call.kind, text, call.expected)
                       /\ UNCHANGED elapsed
                  ELSE /\ wpc' = "loop"
                       /\ elapsed' = Slept(elapsed, SleepOf(call.kind),
                                           call.timeout)
                       /\ UNCHANGED wok
     ELSE /\ wpc' = "ret" /\ wok' = FALSE
          /\ UNCHANGED <<elapsed, response, line, got>>
  /\ UNCHANGED <<mpc, call, creg_i, net_ret, sent>>
  /\ UNCHANGED <<mainVars, upVars, modeVars>>

\* the caller has the result
TokenReturn ==
  /\ mpc = "rx" /\ wpc = "ret"
  /\ wpc' = "none" /\ call' = NoCall /\ elapsed' = 0 /\ response' = {}
  /\ line' = <<>> /\ got' = <<>> /\ wok' = "none"
  /\ UNCHANGED <<mpc, creg_i, net_ret, sent>>
  /\ UNCHANGED <<mainVars, upVars, modeVars>>

InitWait == UploadStart /\ ModemAt("rx")

NextWait == TokenCall \/ TokenPoll \/ TokenReturn

SpecWait == InitWait /\ [][NextWait]_vars

\* ------------------------------------------------- the end of the PUT session
\* upload_ftp() 266-278 with the text of the modem: send_at("AT+FTPPUT=2,0")
\* reads up to OK or ERROR, then wait_for_response("+FTPPUT: 1,0") reads on

\* "+FTPPUT: 1,0", in three parts
TokClosed == <<"+FTPPUT: ", "1,", "0">>

\* what the modem sends after "AT+FTPPUT=2,0": OK and the confirmation,
\* OK alone, ERROR, nothing
CloseLines == {TokOK \o TokClosed, TokOK, TokERROR, <<>>}

\* upload_ftp() at 266: a file of one chunk, acknowledged and recorded by the
\* periodic save
InitClose ==
  /\ MainAtUpload /\ ModemAt("c_start")
  /\ upc = "close" /\ filepath = 2 /\ filesize = FileSize(2)
  /\ resume_from = 0 /\ use_append = FALSE
  /\ max_chunk = chunk_size
  /\ bytes_sent = filesize /\ fpos = filesize
  /\ chunk_off = 0 /\ chunk_len = filesize /\ attempt = 0
  /\ ret = "none" /\ msg = NoMsg
  /\ acked = << <<0, filesize>> >> /\ delivered = acked
  /\ progress = save_progress(filepath, filesize, 0) /\ saved = TRUE
  /\ retried = 0 /\ announced = <<>> /\ wire = <<>>

\* send_at("AT+FTPPUT=2,0", timeout=5) 268: the input buffer is emptied, the
\* command is written, the wait for OK begins
CloseAnnounce ==
  /\ upc = "close" /\ mpc = "c_start"
  /\ \E l \in CloseLines : line' = l
  /\ call' = [kind |-> "send_at", expected |-> TokOK, timeout |-> Seconds(5)]
  /\ wpc' = "loop" /\ elapsed' = 0 /\ response' = <<>>
  /\ got' = <<>> /\ wok' = "none"
  /\ mpc' = "c_send"
  /\ UNCHANGED <<creg_i, net_ret, sent>>
  /\ UNCHANGED <<mainVars, upVars, modeVars>>

\* wait_for_response("+FTPPUT: 1,0", timeout=30) 271 begins when send_at has
\* returned: its response is empty, what send_at has read is gone, what is
\* still to come is not
CloseAwait ==
  /\ mpc = "c_send" /\ wpc = "ret"
  /\ call' = [kind |-> "wait", expected |-> TokClosed,
              timeout |-> Seconds(30)]
  /\ wpc' = "loop" /\ elapsed' = 0 /\ response' = <<>> /\ wok' = "none"
  /\ mpc' = "c_wait"
  /\ UNCHANGED <<line, got, creg_i, net_ret, sent>>
  /\ UNCHANGED <<mainVars, upVars, modeVars>>

\* upload_ftp() 272-278: return by the result of the wait
CloseResult ==
  /\ mpc = "c_wait" /\ wpc = "ret" /\ upc = "close"
  /\ CloseOutcome(wok)
  /\ mpc' = "c_done"
  /\ UNCHANGED <<call, wpc, elapsed, response, creg_i, net_ret, sent>>
  /\ UNCHANGED <<mainVars, modeVars, rxVars>>

NextClose == CloseAnnounce \/ TokenPoll \/ CloseAwait \/ CloseResult

SpecClose == InitClose /\ [][NextClose]_vars

\* ======================================================================= modes
\* The operations that expose, withdraw, mount and unmount the device, called
\* in any order: main.py 90-114 and 248-265, pi_usb_manager.py 40-74 and
\* 132-166.  The commands behave as documented, on a healthy device.

MaxOps == 3

\* modprobe g_mass_storage: succeeds, and does nothing if the module is
\* already present
Modprobe(g) == [rc |-> 0, gadget |-> TRUE]

\* modprobe -r g_mass_storage: succeeds, and does nothing if the module is not
\* present
ModprobeRemove(g) == [rc |-> 0, gadget |-> FALSE]

\* umount <mount point>: fails with status 32 if nothing is mounted there
Umount(m) == [rc |-> IF m THEN 0 ELSE 32, mounted |-> FALSE]

\* mount <device> <mount point>: fails with status 32 if the device is already
\* mounted there
MountCmd(m) == [rc |-> IF m THEN 32 ELSE 0, mounted |-> TRUE]

\* `return True` / log the error and `return False`
Report(rc) == IF rc = 0 THEN "ok" ELSE "error"

\* one call: its effect on the mode and what the caller and the log are told
ModeCall(op, g, m, report) ==
  /\ Len(modeOps) < MaxOps
  /\ gadget' = g /\ mounted' = m
  /\ modeOps' = Append(modeOps, [op |-> op, report |-> report,
                                 gadget |-> g, mounted |-> m])
  /\ UNCHANGED <<cfgVars, now, hostAttached, sectors, volume, pc, boot_start,
                 start_time, monVars, cycleVars, cycleHist, sessHist>>
  /\ UNCHANGED <<upVars, mdVars, rxVars>>

\* main.py 90-107: umount of a stale mount, mount, True iff mount returned 0
mount_usb_disk ==
  LET r == MountCmd(Umount(mounted).mounted)
  IN ModeCall("mount_usb_disk", gadget, r.mounted, Report(r.rc))

\* main.py 109-114: umount, nothing returned, nothing logged
unmount_usb_disk ==
  ModeCall("unmount_usb_disk", gadget, Umount(mounted).mounted, "none")

\* main.py 248-261: True iff modprobe returned 0
load_usb_gadget ==
  LET r == Modprobe(gadget)
  IN ModeCall("load_usb_gadget", r.gadget, mounted, Report(r.rc))

\* main.py 263-265: modprobe -r, nothing returned, nothing logged
unload_usb_gadget ==
  ModeCall("unload_usb_gadget", ModprobeRemove(gadget).gadget, mounted, "none")

\* pi_usb_manager.py 40-58
load_gadget ==
  LET r == Modprobe(gadget)
  IN ModeCall("load_gadget", r.gadget, mounted, Report(r.rc))

\* pi_usb_manager.py 60-74
unload_gadget ==
  LET r == ModprobeRemove(gadget)
  IN ModeCall("unload_gadget", r.gadget, mounted, Report(r.rc))

\* pi_usb_manager.py 132-151: umount if os.path.ismount, then mount
mount_image ==
  LET m1 == IF mounted THEN Umount(mounted).mounted ELSE mounted
      r == MountCmd(m1)
  IN ModeCall("mount_image", gadget, r.mounted, Report(r.rc))

\* pi_usb_manager.py 153-166: True iff umount returned 0, else the error is
\* logged and False returned
unmount_image ==
  LET r == Umount(mounted)
  IN ModeCall("unmount_image", gadget, r.mounted, Report(r.rc))

NextMode ==
  \/ mount_usb_disk \/ unmount_usb_disk \/ load_usb_gadget \/ unload_usb_gadget
  \/ load_gadget \/ unload_gadget \/ mount_image \/ unmount_image

SpecMode == Init /\ [][NextMode]_vars

\* ================================================================= duty cycle
\* pi_usb_manager.py, USBGadgetManager.run_duty_cycle() 207-239 and the loop
\* of main() 253-261 that calls it

\* what a step of the duty cycle leaves alone
DutyKeeps ==
  /\ UNCHANGED <<cfgVars, now, hostAttached, sectors, volume, boot_start,
                 start_time, monVars, cycleVars, cycleSets, cycleNet,
                 sessHist>>
  /\ UNCHANGED <<upVars, mdVars, modeVars, rxVars>>

\* 212-214: load_gadget(); `return False` when it failed
DutyLoad ==
  /\ pc = "d_load"
  /\ \E r \in LoadOutcomes(gadget) :
       /\ gadget' = r.gadget
       /\ pc' = (IF r.ok THEN "d_wait" ELSE "d_fail")
  /\ cycleOps' = << <<"load", 0>> >>
  /\ UNCHANGED mounted
  /\ DutyKeeps

\* 217: wait_for_quiet_window() returns (76-131: after 30 s without a change
\* of the image, or when the host is gone)
DutyQuiet ==
  /\ pc = "d_wait"
  /\ pc' = "d_unload"
  /\ UNCHANGED <<gadget, mounted, cycleOps>>
  /\ DutyKeeps

\* 220-221: unload_gadget(); `return False` when modprobe -r failed
DutyUnload ==
  /\ pc = "d_unload"
  /\ gadget' \in UnloadOutcomes(gadget)
  /\ pc' = (IF gadget' THEN "d_fail" ELSE "d_mount")
  /\ Did(<<"unload">>)
  /\ UNCHANGED mounted
  /\ DutyKeeps

\* 226-227: mount_image(); `return False` when it failed
DutyMount ==
  /\ pc = "d_mount"
  /\ \E r \in MountOutcomes(mounted) :
       /\ mounted' = r.mounted
       /\ pc' = (IF r.ok THEN "d_harvest" ELSE "d_fail")
  /\ Did(<<"mount">>)
  /\ UNCHANGED gadget
  /\ DutyKeeps

\* 229: harvest_files() 168-205 walks the mount point and copies what it
\* finds into an archive outside the volume; its result is not looked at
DutyHarvest ==
  /\ pc = "d_harvest"
  /\ pc' = "d_unmount"
  /\ Did(<<"scan">>)
  /\ UNCHANGED <<gadget, mounted>>
  /\ DutyKeeps

\* 231-235: unmount_image(); `return False` when umount failed
DutyUnmount ==
  /\ pc = "d_unmount"
  /\ mounted' \in UnmountOutcomes(mounted)
  /\ pc' = (IF mounted' THEN "d_fail" ELSE "d_ok")
  /\ Did(<<"unmount">>)
  /\ UNCHANGED gadget
  /\ DutyKeeps

\* main() 253-261: the cycle has returned; sleep, then the next cycle
DutyAgain ==
  /\ pc \in {"d_ok", "d_fail"}
  /\ pc' = "d_load" /\ cycleOps' = <<>>
  /\ UNCHANGED <<gadget, mounted>>
  /\ DutyKeeps

\* one harvest cycle of main.py, called by the monitor, or the duty cycles of
\* pi_usb_manager.py
InitCycle ==
  \E p \in {"h_enter", "d_load"} :
    /\ ServiceStart(p)
    /\ p = "h_enter" => gadget /\ ~mounted

NextCycle ==
  \/ HarvestEnter \/ HarvestUnload \/ HarvestMount \/ HarvestScan
  \/ HarvestNetwork \/ HarvestUpload \/ HarvestClose
  \/ DutyLoad \/ DutyQuiet \/ DutyUnload \/ DutyMount \/ DutyHarvest
  \/ DutyUnmount \/ DutyAgain
  \/ HostAttach \/ HostDetach \/ HostWrite

SpecCycle == InitCycle /\ [][NextCycle]_vars

\* ====================================================================== claims
Range(q) == {q[i] : i \in 1..Len(q)}
InCycle == pc \in {"s_network", "s_upload", "s_close", "boot_sleep",
                   "h_network", "h_upload", "h_close"}
QuietHarvestCalled == pc = "h_enter" /\ caller = "quiet"
DisconnectHarvestCalled == pc = "h_enter" /\ caller = "disconnect"

\* C1: in the harvest cycle and in the boot-time drain, the files that left
\* the volume in the cycle are exactly the files for which upload_ftp returned
\* success in this cycle; a file whose upload failed or was not attempted is
\* still on the volume, and nothing is removed unless network setup succeeded.
C1_RemovedIffUploaded ==
  /\ cycleRemoved = cycleOk
  /\ cycleOk \subseteq cycleTried
  /\ cycleNet # "ok" => cycleRemoved = {}
  /\ InCycle =>
       /\ cycleTried \subseteq {files_to_upload[i] : i \in 1..(idx - 1)}
       /\ \A f \in Range(files_to_upload) :
            f \notin cycleOk => f \in volume

\* a harvest cycle in which one upload succeeded and another one failed
C1_Witness ==
  /\ pc = "h_upload"
  /\ cycleRemoved # {}
  /\ cycleTried \ cycleOk # {}

\* C2: the backing device is never loaded as a USB gadget and mounted locally
\* at the same time.
C2_Exclusive == ~(gadget /\ mounted)

\* the progress record is valid for the file of the running upload
RecordValid ==
  /\ progress.present /\ progress.filepath = filepath
  /\ now - progress.timestamp < ResumeMaxAge

\* the chunks of q are not empty and lie end to end from offset a to offset b
Consecutive(q, a, b) ==
  /\ \A i \in 1..Len(q) :
       /\ q[i][2] > 0
       /\ q[i][1] = (IF i = 1 THEN a ELSE q[i - 1][1] + q[i - 1][2])
  /\ b = (IF q = <<>> THEN a ELSE q[Len(q)][1] + q[Len(q)][2])

Streaming == upc \in {"stream", "announce", "data", "close"}

C4_StaleRecordIgnored ==
  /\ (upc = "open" /\ ~RecordValid) => (resume_from = 0 /\ ~use_append)
  /\ (Streaming /\ ~use_append) => Consecutive(acked, 0, bytes_sent)

\* an upload that starts at 0 with STOR although the record names its file
\* with an offset inside the file: the record is one hour old or older
C4_Witness ==
  /\ upc = "open" /\ progress.present /\ progress.filepath = filepath
  /\ now - progress.timestamp >= ResumeMaxAge
  /\ 0 < progress.bytes_sent /\ progress.bytes_sent < filesize
  /\ resume_from = 0 /\ ~use_append

\* C5 as claimed: the progress record, if present, names the file of the
\* running upload or, when none is running, of the most recent upload.
C5_RecordNamesCurrentFile ==
  progress.present => progress.filepath = filepath

\* C5 as amended: there is one progress record; once the running or most
\* recent upload has written it, it names that upload's file; until then it
\* may still name the file of an earlier upload.
C5_RecordNamesLastWriter ==
  progress.present =>
    /\ progress.filepath \in Files /\ filepath \in Files
    /\ saved => progress.filepath = filepath
    /\ progress.filepath # filepath => ~saved

\* chunks of one file are acknowledged while the record names another file
C5_Witness ==
  /\ upc = "data" /\ acked # <<>>
  /\ progress.present /\ progress.filepath # filepath

\* C6: a quiet-window harvest is called only with a registered write, and not
\* earlier than quiet_window seconds after the host's last write of the session.
C6_NotBeforeQuietWindow ==
  QuietHarvestCalled =>
    /\ last_write_time # NoTime
    /\ lastHostWrite # NoTime => now >= lastHostWrite + quiet_window

\* C7 as claimed, for a write that the first poll after it registered: the
\* quiet-window harvest is called no later than quiet_window + poll_interval
\* after the host's last write.
C7_WithinOnePoll ==
  (QuietHarvestCalled /\ lastHostWrite # NoTime
     /\ last_write_time <= lastHostWrite + poll_interval)
    => now <= lastHostWrite + quiet_window + poll_interval

\* C7 as amended: a pending write is harvested at the first poll at which
\* quiet_window seconds have passed since the poll that registered it, which
\* is less than quiet_window + poll_interval after that poll; no poll is later.
C7_WithinOnePollOfRegistration ==
  /\ QuietHarvestCalled => now < last_write_time + quiet_window + poll_interval
  /\ (pc = "monitor" /\ last_write_time # NoTime) =>
       /\ nextPoll < last_write_time + quiet_window + poll_interval
       /\ now <= nextPoll

\* a quiet-window harvest called later than quiet_window + poll_interval
\* after the write, which the first poll after the write had registered
C7_Witness ==
  /\ QuietHarvestCalled /\ lastHostWrite # NoTime
  /\ last_write_time <= lastHostWrite + poll_interval
  /\ now > lastHostWrite + quiet_window + poll_interval

\* C8: a poll that observes the disconnect of a known host which wrote in
\* this session, less than quiet_window seconds ago, calls the harvest.
C8_HarvestOnDisconnect ==
  [][(/\ pc = "monitor" /\ now = nextPoll /\ host_was_connected
      /\ ~(gadget /\ hostAttached)
      /\ lastHostWrite # NoTime /\ now < lastHostWrite + quiet_window
      /\ (nextPoll' # nextPoll \/ pc' # pc))
     => pc' = "h_enter"]_vars

\* C9: a harvest is called on disconnect only if the host wrote in the session.
C9_NoHarvestWithoutWrite ==
  DisconnectHarvestCalled => lastHostWrite # NoTime

\* C10: a failed delivery attempt that is not the last of max_retries leaves
\* the upload at the same chunk; an acknowledged attempt, after any number
\* k < max_retries of failed ones, moves the upload on to the next chunk; and
\* when upload_ftp returns success no progress record exists.
C10_RetryThenContinue ==
  /\ [][/\ (attempt' = attempt + 1 /\ attempt' < max_retries) =>
             /\ upc' = "announce" /\ ret' = "none"
             /\ UNCHANGED <<bytes_sent, chunk_off, chunk_len, progress>>
        /\ Len(acked') > Len(acked) =>
             /\ attempt < max_retries
             /\ upc' = "stream" /\ ret' = "none"
             /\ bytes_sent' = chunk_off + chunk_len /\ fpos' = bytes_sent'
       ]_vars
  /\ []((upc = "done" /\ ret = "ok") => ~progress.present)

\* success of an upload resumed from a progress record, in two chunks, one
\* of them acknowledged at the last of max_retries attempts
C10_Witness ==
  /\ upc = "done" /\ ret = "ok" /\ ~progress.present
  /\ retried = max_retries - 1 /\ Len(acked) = 2 /\ use_append

\* C11: when the last of max_retries attempts of a chunk fails, upload_ftp
\* returns failure with the message "Failed at byte <bytes_sent>", having
\* written a progress record for the file with that offset, which is the end
\* of the acknowledged chunks; after the return nothing more is sent.
C11_ChunkFailureIsFatal ==
  /\ [][(upc \in {"announce", "data"} /\ attempt' = max_retries) =>
          /\ upc' = "done" /\ ret' = "failed"
          /\ msg' = [kind |-> "Failed at byte", at |-> bytes_sent]
          /\ progress' = [present |-> TRUE, filepath |-> filepath,
                          bytes_sent |-> bytes_sent, timestamp |-> now]
          /\ UNCHANGED <<bytes_sent, acked>>
       ]_vars
  /\ []((upc = "done" /\ msg.kind = "Failed at byte") =>
          /\ Len(announced) = max_retries
          /\ Consecutive(acked, resume_from, msg.at))
  /\ [][upc = "done" =>
          (upc' = "idle" /\ announced' = <<>> /\ UNCHANGED progress)]_vars

\* an upload that failed at its second chunk: the record and the message
\* name the end of the first chunk
C11_Witness ==
  /\ upc = "done" /\ msg.kind = "Failed at byte"
  /\ Len(acked) = 1 /\ msg.at = acked[1][1] + acked[1][2]
  /\ progress.present /\ progress.bytes_sent = msg.at

\* C14: for a zero-byte file upload_ftp returns success without requesting
\* an FTP PUT session.
C14_ZeroByteNoSession ==
  (upc # "idle" /\ FileSize(filepath) = 0) => (upc = "done" /\ ret = "ok")

\* C15: the end-of-data step returns success with the progress record
\* deleted, or failure with a progress record written for the file at
\* bytes_sent; the caller removes the file only after success.
C15_CloseConfirmedOrRecorded ==
  /\ [][upc = "close" =>
          /\ upc' = "done"
          /\ \/ /\ ret' = "ok" /\ msg'.kind = "Upload successful"
                /\ ~progress'.present
             \/ /\ ret' = "failed" /\ msg'.kind = "Upload may have failed"
                /\ progress' = [present |-> TRUE, filepath |-> filepath,
                                bytes_sent |-> bytes_sent, timestamp |-> now]
       ]_vars
  /\ [][upc = "done" =>
          volume' = (IF ret = "ok" THEN volume \ {filepath} ELSE volume)]_vars
  /\ []((upc = "done" /\ ret = "ok") => msg.kind = "Upload successful")

\* all chunks of a file were acknowledged, the close was not confirmed: the
\* record holds the file's size and the file is still on the volume
C15_Witness ==
  /\ upc = "done" /\ msg.kind = "Upload may have failed"
  /\ Len(acked) = 2 /\ bytes_sent = filesize
  /\ progress.present /\ progress.bytes_sent = filesize
  /\ filepath \in volume

\* C20: a chunk is announced at most max_retries times, every announcement
\* of it carries the same offset and length, and the announced chunk begins
\* where the acknowledged chunks end.
C20_RetrySameChunk ==
  /\ Len(announced) <= max_retries
  /\ upc = "announce" => Len(announced) = attempt
  /\ upc = "data" => Len(announced) = attempt + 1
  /\ (upc \in {"announce", "data"} \/ msg.kind = "Failed at byte") =>
       /\ \A i \in 1..Len(announced) : announced[i] = <<chunk_off, chunk_len>>
       /\ chunk_len > 0
       /\ chunk_off = bytes_sent
       /\ Consecutive(acked, resume_from, chunk_off)

\* the third announcement of the second chunk of an upload
C20_Witness ==
  /\ upc = "data" /\ Len(announced) = max_retries /\ Len(acked) = 1

\* the upload attempts among the steps of a cycle, in order
Uploads(ops) == SelectSeq(ops, LAMBDA o : o[1] = "upload")

\* a cycle that ended at the network step: nothing attempted, nothing removed,
\* unmount_usb_disk() and load_usb_gadget() called last
AbortedAtNetwork ==
  /\ Uploads(cycleOps) = <<>> /\ cycleTried = {} /\ cycleRemoved = {}
  /\ Len(cycleOps) >= 3
  /\ SubSeq(cycleOps, Len(cycleOps) - 2, Len(cycleOps))
       = <<<<"network", 0>>, <<"unmount", 0>>, <<"load", 0>>>>

\* C12: when setup_network() fails in a cycle of the monitor (the modem does
\* not answer, or the bearer query reports 0.0.0.0), the cycle ends there: no
\* upload is attempted, no file is deleted, the volume is unmounted and the
\* gadget load is attempted before the cycle returns.
C12_NetworkFailureAborts ==
  [][(pc = "h_network" /\ cycleNet' \in {"no_modem", "no_ip"}) =>
       /\ pc' = "h_ret" /\ volume' = volume
       /\ AbortedAtNetwork'
       /\ ~mounted']_vars

\* the attempts a cycle owes to the first n entries of files_to_upload
AttemptsOf(n) == [i \in 1..n |-> <<"upload", files_to_upload[i]>>]

\* C16: in a cycle of the monitor whose setup_network() succeeded, every file
\* the scan listed gets exactly one upload_ftp call, in the order of the list,
\* whatever the calls before it returned; a failed upload leaves its file on
\* the volume and the loop goes on to the next file.
C16_EveryCandidateOnce ==
  /\ pc = "h_upload" =>
       /\ idx \in 1..(Len(files_to_upload) + 1)
       /\ Uploads(cycleOps) = AttemptsOf(idx - 1)
  /\ (pc = "h_close" \/ (pc = "h_ret" /\ cycleNet = "ok")) =>
       Uploads(cycleOps) = AttemptsOf(Len(files_to_upload))
  /\ pc \in {"h_upload", "h_close", "h_ret"} =>
       \A f \in cycleTried \ cycleOk : f \in volume

C16_Witness ==
  /\ pc = "h_close" /\ Len(files_to_upload) = 2
  /\ Uploads(cycleOps) = AttemptsOf(2)
  /\ cycleOk = {files_to_upload[2]}
  /\ files_to_upload[1] \in volume

\* C17: the boot phase always ends with an attempt to load the gadget, whether
\* the mount, setup_network() or an upload succeeds or fails and however often
\* setup_network() is retried: a drain attempt starts only before the boot
\* timeout has passed, an upload starts only within the timeout of its
\* attempt, every retry takes 10 s of the timeout, and load_usb_gadget() is
\* reached.
C17_BootPhaseEnds ==
  /\ <>(pc \in {"monitor", "exit"})
  /\ [][(pc = "boot_loop" /\ pc' = "s_mount") =>
          now - boot_start < boot_upload_timeout]_vars
  /\ [][(pc = "s_upload" /\ Len(cycleOps') > Len(cycleOps)) =>
          now - start_time <= boot_upload_timeout]_vars
  /\ [][(pc = "boot_sleep" /\ pc' # pc) =>
          (pc' = "boot_loop" /\ now' = now + BootRetrySleep)]_vars
  /\ [][(pc = "load" /\ pc' # pc) => pc' \in {"monitor", "exit"}]_vars

C17_Witness ==
  /\ pc = "load" /\ caller = "boot"
  /\ cycleNet \in {"no_modem", "no_ip"}
  /\ cycleOps = <<<<"mount", 0>>, <<"network", 0>>>>
  /\ now - boot_start >= boot_upload_timeout
  /\ now - boot_start >= 2 * BootRetrySleep

\* C13: setup_network() returns success only if the bearer query
\* (AT+SAPBR=2,1) was answered and the answer holds an address other than
\* 0.0.0.0; without such an answer it returns failure.
C13_SuccessOnlyWithAddress ==
  (mpc = "net_done" /\ net_ret = "ok") =>
    /\ Contains(response, "OK")
    /\ Contains(response, "10.0.0.1")
    /\ ~Contains(response, "0.0.0.0")

InSetupNetwork ==
  mpc \in {"at", "csq", "cfun", "creg", "contype", "apn", "open", "query"}

InUploadFtp == upc \in {"open", "stream", "announce", "data", "close"}

\* C18: every send_at() and wait_for_response() returns, whatever the modem
\* sends or withholds: each turn of its loop that does not return uses up at
\* least one sleep of its timeout.  So setup_network(), close_bearer() and
\* upload_ftp() return.
C18_EveryWaitReturns ==
  /\ (wpc = "loop") ~> (wpc = "ret")
  /\ [](wpc = "loop" => elapsed <= call.timeout)
  /\ [][(wpc = "loop" /\ wpc' = "loop") =>
          elapsed' >= elapsed + SleepOf(call.kind) \/ elapsed' = call.timeout]_vars
  /\ InSetupNetwork ~> (mpc = "net_done")
  /\ (mpc = "close") ~> (mpc = "close_done")
  /\ InUploadFtp ~> (upc = "done")

C18_Witness ==
  /\ mpc = "wait" /\ wpc = "ret" /\ call.timeout = Seconds(15)
  /\ response = {} /\ elapsed = call.timeout

\* C19: each of the operations that load or unload the gadget and mount or
\* unmount the volume is idempotent: called a second time in a row it leaves
\* the mode as the first call left it and reports no error.
C19_Idempotent ==
  \A i \in 1..(Len(modeOps) - 1) :
    modeOps[i + 1].op = modeOps[i].op =>
      /\ modeOps[i + 1].gadget = modeOps[i].gadget
      /\ modeOps[i + 1].mounted = modeOps[i].mounted
      /\ modeOps[i + 1].report # "error"

\* the positions of wire that hold the event k
WireAt(k) == {i \in 1..Len(wire) : wire[i][1] = k}

\* C21: the bytes of a chunk are written to the serial line only after the
\* prompt "+FTPPUT: 2," was received for the announcement of that attempt:
\* the write directly follows the prompt, which directly follows the
\* announcement of the same offset and length, and an attempt whose wait for
\* the prompt failed writes no data.
C21_DataOnlyAfterPrompt ==
  /\ [](\A i \in WireAt("data") :
         /\ i = 3
         /\ wire[2][1] = "prompt"
         /\ wire[1] = <<"announce", wire[i][2], wire[i][3]>>)
  /\ [](WireAt("noprompt") # {} => WireAt("data") = {})
  /\ [][(upc = "announce" /\ upc' # "data") => WireAt("data")' = {}]_vars

C21_Witness ==
  /\ upc = "data" /\ attempt = 1
  /\ wire = << <<"announce", chunk_off, chunk_len>>, <<"prompt", chunk_off, 0>> >>
  /\ chunk_off > 0

\* C22: "AT+FTPPUT=2,0" is sent only as the end of the data, after the loop
\* over the chunks has ended (the file is sent, or nothing more could be
\* read); every announcement of a chunk carries a length of at least 1.
C22_ZeroLengthEndsData ==
  /\ [](\A i \in WireAt("announce") : wire[i][3] >= 1)
  /\ [](\A i \in 1..Len(announced) : announced[i][2] >= 1)
  /\ [](WireAt("end") # {} => upc = "done" /\ Len(wire) = 1)
  /\ [][WireAt("end")' # WireAt("end") => upc = "close" \/ upc' = "idle"]_vars
  /\ [][(upc' = "close" /\ upc # "close") =>
          /\ upc = "stream"
          /\ bytes_sent >= filesize \/ chunk_len' = 0]_vars

C22_Witness ==
  /\ upc = "done" /\ wire = << <<"end", filesize, 0>> >>
  /\ Len(acked) = 2 /\ acked[2][2] >= 1 /\ acked[2][2] < max_chunk

\* C25: when the PUT session is not reported ready (timeout, or ERROR), the
\* upload returns failure: no chunk was announced or written, no end of data
\* was sent, and the progress record is as it was before the call.
C25_OpenFailureTouchesNothing ==
  /\ [][(upc = "open" /\ upc' = "done") =>
          /\ ret' = "failed" /\ msg'.kind = "Failed to open FTP session"
          /\ Len(wire') = 1 /\ announced' = <<>> /\ acked' = <<>>
          /\ progress' = progress /\ ~saved']_vars
  /\ [][upc' = "open" => progress' = progress]_vars
  /\ [](WireAt("noready") # {} =>
          /\ upc = "done" /\ ret = "failed"
          /\ Len(wire) = 1 /\ announced = <<>> /\ acked = <<>> /\ ~saved)

C25_Witness ==
  /\ upc = "done" /\ msg.kind = "Failed to open FTP session"
  /\ wire = << <<"noready", 0, 0>> >>
  /\ progress.present /\ progress.filepath = filepath
  /\ progress.bytes_sent > 0 /\ resume_from = progress.bytes_sent

\* the offset a later upload of this file would resume from
Recoverable == IF saved THEN progress.bytes_sent ELSE resume_from

\* C26: with a chunk length of at most 500 KiB, at every chunk boundary of
\* the loop the acknowledged offset is less than 500 KiB plus one chunk ahead
\* of the offset recoverable for the file: the offset last saved by this
\* upload, or the offset the upload began at.
C26_BoundedLoss ==
  (upc \in {"stream", "announce", "data"} /\ max_chunk <= SaveEvery) =>
    /\ bytes_sent - Recoverable < SaveEvery + max_chunk
    /\ bytes_sent >= Recoverable
    /\ Recoverable > 0 =>
         /\ progress.present /\ progress.filepath = filepath
         /\ progress.bytes_sent = Recoverable

C26_Witness ==
  /\ upc = "stream" /\ saved /\ Len(acked) >= 3
  /\ bytes_sent - Recoverable > max_chunk
  /\ bytes_sent < filesize

\* C24: when the probe "AT" is not answered with OK within its timeout,
\* setup_network() returns failure and has written no other command.
C24_NoProbeNoCommands ==
  /\ [][(mpc = "at" /\ wpc = "ret" /\ ~Contains(response, "OK")) =>
          /\ mpc' = "net_done" /\ net_ret' = "no_modem"
          /\ sent' = <<"AT">>]_vars
  /\ []((mpc = "net_done" /\ net_ret = "no_modem") =>
          sent = <<"AT">> /\ ~Contains(response, "OK"))
  /\ []((InSetupNetwork /\ Len(sent) >= 2) => mpc # "at")

C24_Witness ==
  /\ mpc = "net_done" /\ net_ret = "no_modem" /\ sent = <<"AT">>
  /\ response = {} /\ elapsed = Seconds(2)

\* C23: a wait ends with success when the expected token has appeared in
\* the text read so far, with failure when ERROR has appeared in it, and with
\* failure at the timeout when neither has, however the modem's text is cut
\* into reads; it reads no further once either token is there.
C23_WaitOutcome ==
  /\ [](wpc = "ret" =>
          /\ wok = Has(got, call.expected)
          /\ (~Has(got, call.expected) /\ Has(got, TokERROR)) =>
               wok = FALSE /\ elapsed < call.timeout
          /\ (~Has(got, call.expected) /\ ~Has(got, TokERROR)) =>
               wok = FALSE /\ elapsed >= call.timeout)
  /\ [][(wpc = "loop" /\ wpc' = "loop") =>
          ~Has(got', call.expected) /\ ~Has(got', TokERROR)]_vars
  /\ [][(wpc = "loop" /\ wpc' = "ret" /\ wok' = TRUE) =>
          ~Has(got, TokERROR)]_vars

C23_Witness ==
  /\ wpc = "ret" /\ wok = TRUE /\ call.kind = "wait"
  /\ got = <<"E", "R", "R">> \o TokOK /\ elapsed > 0

HarvestPcs == {"h_unload", "h_mount", "h_scan", "h_network", "h_upload",
               "h_close", "h_ret"}

\* the place of a step in harvest_and_upload()
StepRank(name) ==
  CASE name = "unload" -> 1 [] name = "mount" -> 2 [] name = "scan" -> 3
    [] name = "network" -> 4 [] name = "upload" -> 5
    [] name = "close_bearer" -> 6 [] name = "unmount" -> 7
    [] name = "load" -> 8

StepNames(ops) == [i \in 1..Len(ops) |-> ops[i][1]]

\* C27: the steps of a harvest cycle come in the order gadget unload, mount,
\* enumeration, network setup, uploads one after the other, bearer close,
\* unmount, gadget load; the network is set up at most once a cycle; an
\* upload comes only after the mount succeeded and never after the unmount.
C27_StepOrder ==
  pc \in HarvestPcs =>
    LET names == StepNames(cycleOps)
    IN /\ \A i, j \in 1..Len(names) :
            i < j => \/ StepRank(names[i]) < StepRank(names[j])
                     \/ names[i] = "upload" /\ names[j] = "upload"
       /\ names # <<>> => names[1] = "unload"
       /\ Uploads(cycleOps) # <<>> =>
            SubSeq(names, 1, 4) = <<"unload", "mount", "scan", "network">>
       /\ (pc = "h_upload" \/ Uploads(cycleOps) # <<>>) =>
            (cycleNet = "ok" /\ (pc \in {"h_upload", "h_close"} => mounted))
       /\ pc = "h_ret" => names[Len(names)] = "load"

C27_Witness ==
  /\ pc = "h_ret"
  /\ StepNames(cycleOps) = <<"unload", "mount", "scan", "network", "upload",
                             "upload", "close_bearer", "unmount", "load">>

\* the cycle ended at the mount: nothing was enumerated, no network set up,
\* nothing uploaded, and load of the gadget was the last step
AbortedAtMount ==
  LET names == StepNames(cycleOps)
  IN /\ \A i \in 1..Len(names) :
          names[i] \notin {"scan", "network", "upload", "close_bearer"}
     /\ Len(names) >= 2
     /\ names[Len(names) - 1] = "mount" /\ names[Len(names)] = "load"

\* C28: when the mount fails in a cycle, the cycle ends there: nothing is
\* enumerated, no network is set up, nothing is uploaded or deleted, and a
\* load of the gadget is attempted before the cycle returns.
C28_MountFailureAborts ==
  [][(pc \in {"h_mount", "d_mount"} /\ pc' \in {"h_ret", "d_fail"}) =>
       /\ volume' = volume
       /\ cycleTried' = {} /\ cycleRemoved' = {} /\ cycleNet' = "none"
       /\ AbortedAtMount']_vars

\* C29: an error raised by a step of an iteration of the monitor loop, inside
\* a harvest cycle too, does not end the loop: the handler sleeps 10 s and
\* the loop polls again; the loop is left only by an interrupt.
C29_ErrorsDoNotStopLoop ==
  /\ [][(pc \in LoopPcs) => (pc' \in LoopPcs \cup {"interrupted"})]_vars
  /\ [][(pc = "backoff" /\ pc' # "interrupted" /\ pc' # pc) =>
          /\ pc' = "monitor" /\ now' = now + ErrorBackoff
          /\ nextPoll' = now']_vars
  /\ [][(pc \in LoopPcs /\ pc' = "backoff" /\ pc # "backoff") =>
          UNCHANGED <<monVars, gadget, mounted, volume>>]_vars

C29_Witness ==
  /\ pc = "h_enter" /\ caller = "disconnect"
  /\ ~gadget /\ mounted /\ now >= ErrorBackoff

\* C30: the harvest's own writes to the device (the local mount, the removal
\* of uploaded files) are never taken for writes of the host.  When
\* harvest_and_upload() has returned, the monitor has no pending write and
\* no connected host on record; and harvest_and_upload() is called only when
\* a host connection was on record at an earlier poll and the host has
\* written since it attached.
ReturnedToMonitor == pc = "h_ret" /\ pc' = "monitor"
HarvestCalled == pc = "monitor" /\ pc' = "h_enter"
\* main() 440-444 and 455-457: the monitor is idle again after every return,
\* also when the harvest left the counter above the last value it had seen
IdleAfterReturn ==
  [][ReturnedToMonitor =>
       (last_write_time' = NoTime /\ ~host_was_connected')]_vars
C30_HarvestWritesNotCounted ==
  /\ IdleAfterReturn
  /\ [][HarvestCalled =>
          (host_was_connected /\ lastHostWrite # NoTime)]_vars

C30_Witness ==
  /\ pc = "monitor" /\ sectors > last_seen_sectors /\ last_seen_sectors = 0
  /\ ~host_was_connected /\ last_write_time = NoTime
  /\ lastHostWrite = NoTime /\ hostAttached /\ now = nextPoll

\* C31: at every poll boundary of the monitor loop a pending write
\* (last_write_time set) implies that the host is on record as connected:
\* an idle monitor carries no pending write into the next session.
C31_PendingImpliesConnected ==
  pc \in {"monitor", "backoff"} =>
    (last_write_time # NoTime => host_was_connected)

C31_Witness ==
  /\ pc = "monitor" /\ now = nextPoll
  /\ last_write_time # NoTime /\ host_was_connected
  /\ lastHostWrite # NoTime

\* C32: the monitor registers write activity only when the write counter
\* increased between two successful samples: the sample it compares with was
\* not a failed read, and the host wrote after it.
WriteRegistered ==
  /\ pc = "monitor" /\ last_write_time' # NoTime
  /\ last_write_time' # last_write_time
C32_WriteOnlyOnIncrease ==
  [][WriteRegistered =>
       (/\ last_seen_sectors # ReadError
        /\ last_seen_sectors' > last_seen_sectors
        /\ lastHostWrite # NoTime)]_vars

C32_Witness ==
  /\ pc = "monitor" /\ host_was_connected /\ last_seen_sectors = ReadError
  /\ sectors = 0 /\ lastHostWrite = NoTime /\ last_write_time = NoTime

\* C33: every write the host made while the device was exposed is followed
\* by a harvest once the host has disconnected: the poll that finds the host
\* gone after an unharvested write calls harvest_and_upload().  This covers
\* a write made before the first poll that saw the connection and a write
\* made after the last poll that saw it.
Polled ==
  /\ pc = "monitor" /\ now = nextPoll
  /\ (pc' = "h_enter" \/ nextPoll' # nextPoll)
C33_WriteIsHarvested ==
  [][(Polled /\ ~hostAttached /\ lastHostWrite # NoTime)
       => pc' = "h_enter"]_vars

\* the connection was seen by a poll after the host had written: the write
\* is part of the baseline, and nothing is pending
C33_Witness ==
  /\ pc = "monitor" /\ host_was_connected /\ last_write_time = NoTime
  /\ lastHostWrite # NoTime /\ sectors > 0
  /\ baseline_sectors = sectors /\ last_seen_sectors = sectors
  /\ ~hostAttached /\ now = nextPoll

\* C34: whenever the monitor loop is polling between harvest cycles the
\* gadget is loaded: every return path of harvest_and_upload() leaves the
\* device exposed to the host, also after a failed load.
C34_ExposedWhilePolling == pc = "monitor" => gadget

\* a cycle of the monitor has returned and the device is not exposed
C34_Witness ==
  /\ pc = "monitor" /\ caller # "boot" /\ ~gadget /\ ~mounted
  /\ volume # {} /\ hostAttached

\* C35: upload_ftp returns success only if every byte of the file from the
\* start offset to the end of the file was acknowledged: bytes_sent equals
\* the file size, for every chunk length the ready line may report.
C35_SuccessMeansAllAcked ==
  (upc = "done" /\ ret = "ok") =>
    (bytes_sent = filesize /\ Consecutive(acked, resume_from, filesize))

\* success was returned for a file of which nothing was sent
C35_Witness ==
  /\ upc = "done" /\ ret = "ok" /\ max_chunk = 0
  /\ filesize > 0 /\ bytes_sent = 0 /\ acked = <<>>
  /\ wire = << <<"end", 0, 0>> >>

\* C36: within one upload the bytes of each chunk reach the remote file
\* exactly once: no chunk is taken by the modem a second time, also when a
\* retry follows data whose acknowledgement was not received.
C36_ChunkOnce ==
  \A i, j \in 1..Len(delivered) : delivered[i] = delivered[j] => i = j

\* an upload returned success after the modem took one chunk twice
C36_Witness ==
  /\ upc = "done" /\ ret = "ok" /\ bytes_sent = filesize
  /\ Len(acked) = 1 /\ delivered = <<acked[1], acked[1]>>

\* C37: every progress record written during an upload names the file and
\* carries the bytes_sent of the moment, which is where the acknowledged
\* chunks end: no chunk that was announced or written but not acknowledged
\* is counted, and a later record of the same upload is never lower.
RecordWritten == Streaming /\ progress' # progress /\ progress'.present
C37_RecordAtAckedBoundary ==
  [][RecordWritten =>
       (/\ progress'.filepath = filepath
        /\ progress'.bytes_sent = bytes_sent'
        /\ Consecutive(acked', resume_from, progress'.bytes_sent)
        /\ saved => progress'.bytes_sent >= progress.bytes_sent)]_vars

\* a record written after the second chunk failed: it stands at the end of
\* the first chunk, though the second chunk's bytes were written to the modem
C37_Witness ==
  /\ upc = "done" /\ msg.kind = "Failed at byte" /\ saved
  /\ Len(acked) = 1 /\ Len(announced) = max_retries
  /\ Len(delivered) = 2
  /\ progress.present /\ progress.bytes_sent = acked[1][2]
  /\ progress.bytes_sent < chunk_off + chunk_len

\* the next upload of the file begins, less than one hour after the record
ResumeCalled ==
  /\ upc = "idle" /\ upc' = "open" /\ filepath' = ResumeFile
  /\ now < ResumeMaxAge

\* C38 as claimed: after a failed upload of a file has left a record for it,
\* the next upload of the file begun within one hour resumes from the
\* recorded offset, whatever uploads of other files came in between.
C38_ResumesWhateverBetween ==
  [][ResumeCalled => (resume_from' = ResumeAt /\ use_append')]_vars

\* C38 as amended: there is one record.  The next upload of the file resumes
\* from the recorded offset when the record is still the one the failed
\* upload left; an upload of another file in between that succeeded has
\* removed it, one that failed after its session opened has replaced it, and
\* then the upload starts at 0 with STOR.  Only such uploads change it.
C38_ResumesIfRecordKept ==
  /\ [][ResumeCalled =>
          IF progress = ResumeRecord
          THEN resume_from' = ResumeAt /\ use_append'
          ELSE /\ resume_from' = 0 /\ ~use_append'
               /\ progress.present => progress.filepath # ResumeFile]_vars
  /\ [][progress' # progress =>
          /\ filepath # ResumeFile /\ upc \in {"announce", "data", "close"}
          /\ \/ ~progress'.present /\ ret' = "ok"
             \/ progress'.filepath = filepath /\ saved']_vars

\* the next upload of the file starts at 0 within the hour: the record names
\* another file, whose upload failed in between
C38_Witness ==
  /\ upc = "open" /\ filepath = ResumeFile /\ now < ResumeMaxAge
  /\ resume_from = 0 /\ ~use_append
  /\ progress.present /\ progress.filepath # ResumeFile
  /\ progress.bytes_sent > 0

\* C39: when the modem has sent the confirmation "+FTPPUT: 1,0" after the end
\* of the data and the program has read all of it before the wait ended,
\* upload_ftp returns success, however the text was cut into reads.
C39_ConfirmedCloseSucceeds ==
  [][(mpc = "c_wait" /\ mpc' = "c_done" /\ Has(got, TokClosed))
       => ret' = "ok"]_vars

\* the confirmation was read whole, its first part in the read that brought
\* the OK, and upload_ftp returned failure
C39_Witness ==
  /\ mpc = "c_done" /\ ret = "failed" /\ msg.kind = "Upload may have failed"
  /\ got = TokOK \o TokClosed /\ line = <<>>
  /\ response = <<"1,", "0">>
  /\ progress.present /\ progress.bytes_sent = filesize

====
